---- MODULE Spec2Model ----
(***************************************************************************)
(* Model of the resolve -> plan -> execute core of J.A.R.V.I.S:            *)
(*   interaction/resolver/{intents,rules_quick,legacy_router,resolver}.py  *)
(*   planner/policies.py, toolrunner/management/planner/planner.py         *)
(*   executor/{registry,executor}.py, core/pipeline.py                     *)
(*                                                                         *)
(* An utterance is a sequence of tokens (maximal runs of characters that   *)
(* contain neither white space nor a ':' separator).  Russian key words    *)
(* are written in Latin transliteration (sozdaj = "создай" ...).  A        *)
(* confidence is an integer number of hundredths (0.49 is 49).             *)
(***************************************************************************)
EXTENDS Integers, Sequences, FiniteSets, TLC

VARIABLES
    cfg,            \* ResolverService._cfg
    whitelist,      \* ResolverService._whitelist
    rules,          \* Planner._rules
    strict_acl,     \* Executor._strict_acl
    op,             \* the call whose result the state holds ("idle": none)
    text,           \* argument of the last resolve / handle call
    level,          \* confirmation level the caller holds for the last call
    response,       \* what the remote resolver answered in the last call
    intent,         \* Intent returned by the last resolve / handle call
    raised,         \* exception that escaped the last call ("" when none)
    remote_calls,   \* number of HTTP posts issued by the last resolve call
    legacy_calls,   \* number of legacy_route calls made by the last resolve call
    plan,           \* Plan given to (or built by) the last execute / handle call
    replies,        \* transport replies offered to the last execute call
    execution,      \* ExecutionResult of the last execute / handle call
    dispatched,     \* tools passed to transport.execute by the last call, in order
    context,        \* context argument of the last plan call
    first_plan,     \* first plan call on this Planner (inputs, outcome), calls so far
    transport_response, \* TransportResponse of the last transport.execute call
    collaborator,   \* what the HTTP server or the handler did in that call
    requests,       \* commands POSTed to the toolrunner /execute by the last call
    handler_calls,  \* tools whose handler the last call invoked, in order
    chat_out,       \* ChatOut the controller answered in the last /chat call
    controller,     \* the controller's configuration (proxy_commands, planner)
    ui,             \* the ui section of the CLI's configuration
    stages,         \* stages the last handle call ran, in order
    calls,          \* the handle calls in progress on the shared Pipeline
    svc,            \* the last /resolve call of the disambiguation service
    sandbox,        \* the toolrunner's workspace and the last files.* call
    stylist,        \* the Stylist's per-key history and its last say_key call
    mgmt            \* the ManagementService's tasks and events

vars == <<cfg, whitelist, rules, strict_acl, op, text, level, response, intent,
          raised, remote_calls, legacy_calls, plan, replies, execution, dispatched,
          context, first_plan, transport_response, collaborator, requests,
          handler_calls, chat_out, controller, ui, stages, calls, svc, sandbox,
          stylist, mgmt>>

(***************************************************************************)
(* Optional values                                                         *)
(***************************************************************************)
None == [some |-> FALSE]
Some(x) == [some |-> TRUE, v |-> x]

(***************************************************************************)
(* Tokens of an utterance                                                  *)
(***************************************************************************)
\* w: the characters without surrounding double quotes; lq / rq: a double
\* quote before / after them; word: matches \w+; eq: contains '=' (k, v are
\* the parts before and after the first '=').
Tok(w, lq, rq, word, eq, k, v) ==
    [w |-> w, lq |-> lq, rq |-> rq, word |-> word, eq |-> eq, k |-> k, v |-> v]
W(s) == Tok(s, FALSE, FALSE, TRUE, FALSE, "", "")
N(s) == Tok(s, FALSE, FALSE, FALSE, FALSE, "", "")
Q(s) == Tok(s, TRUE, TRUE, FALSE, FALSE, "", "")
KV(k, v) == Tok(k \o "=" \o v, FALSE, FALSE, FALSE, TRUE, k, v)

IsKw(tok, kws) == tok.w \in kws /\ ~tok.lq /\ ~tok.rq
IsQuoted(tok) == tok.lq /\ tok.rq
Unquote(tok) == [tok EXCEPT !.lq = FALSE, !.rq = FALSE]
Rest(toks, i) == SubSeq(toks, i, Len(toks))

(***************************************************************************)
(* intents.py                                                              *)
(***************************************************************************)
ResolverMeta(confidence, rule, source, fallback_used, explain) ==
    [confidence |-> confidence, rule |-> rule, source |-> source,
     fallback_used |-> fallback_used, explain |-> explain]

command_intent(name, args, confidence, rule, source, fallback_used, explain) ==
    [kind |-> "command", name |-> Some(name), args |-> args, text |-> None,
     meta |-> ResolverMeta(confidence, rule, source, fallback_used, explain)]

chat_intent(t, rule, explain) ==
    [kind |-> "chat", name |-> None, args |-> <<>>, text |-> Some(t),
     meta |-> ResolverMeta(None, rule, None, FALSE, explain)]

is_command(i) == i.kind = "command" /\ i.name.some /\ i.name.v # ""

NoIntent ==
    [kind |-> "none", name |-> None, args |-> <<>>, text |-> None,
     meta |-> ResolverMeta(None, None, None, FALSE, <<>>)]

(***************************************************************************)
(* rules_quick.py                                                          *)
(***************************************************************************)
\* value.strip(), one pair of matching outer quotes removed
_clean_str(val) ==
    IF Len(val) >= 1 /\ val[1].lq /\ val[Len(val)].rq
    THEN [i \in 1..Len(val) |->
            [val[i] EXCEPT !.lq = IF i = 1 THEN FALSE ELSE @,
                           !.rq = IF i = Len(val) THEN FALSE ELSE @]]
    ELSE val

_build_command(cmd, args) ==
    command_intent(cmd, [a \in DOMAIN args |-> _clean_str(args[a])],
                   None, Some("quick_ru"), Some("quick"), FALSE, <<>>)

\* smallest i >= from with toks[i] a key word of kws1, toks[i+1] one of kws2
\* and at least one token after them (0 when there is none): the lazy (.+?)
RECURSIVE LazySplit(_, _, _, _)
LazySplit(toks, from, kws1, kws2) ==
    IF from + 2 > Len(toks) THEN 0
    ELSE IF IsKw(toks[from], kws1) /\ IsKw(toks[from + 1], kws2) THEN from
    ELSE LazySplit(toks, from + 1, kws1, kws2)

\* smallest i >= from with toks[i] a separator and a token after it
RECURSIVE LazySep(_, _)
LazySep(toks, from) ==
    IF from + 1 > Len(toks) THEN 0
    ELSE IF IsKw(toks[from], {":", "-"}) THEN from
    ELSE LazySep(toks, from + 1)

QuickCreateContent(t) ==
    LET n == Len(t)
        i == IF n >= 6 /\ IsKw(t[1], {"sozdaj", "sozdat"}) /\ IsKw(t[2], {"fajl"})
             THEN LazySplit(t, 4, {"s"}, {"soderzhimym"}) ELSE 0
    IN IF i = 0 THEN None
       ELSE Some(_build_command("files.create",
                [path |-> SubSeq(t, 3, i - 1), content |-> Rest(t, i + 2)]))

QuickCreate(t) ==
    IF Len(t) >= 3 /\ IsKw(t[1], {"sozdaj", "sozdat"}) /\ IsKw(t[2], {"fajl"})
    THEN Some(_build_command("files.create", [path |-> Rest(t, 3), content |-> <<>>]))
    ELSE None

QuickRead(t) ==
    IF Len(t) >= 3 /\ IsKw(t[1], {"prochitaj", "prochitat"}) /\ IsKw(t[2], {"fajl"})
    THEN Some(_build_command("files.read", [path |-> Rest(t, 3)]))
    ELSE None

QuickList(t) ==
    IF Len(t) >= 1 /\ IsKw(t[1], {"pokazhi", "spisok", "fajly"})
    THEN Some(_build_command("files.list",
            [mask |-> IF Len(t) >= 2 THEN Rest(t, 2) ELSE <<N("*")>>]))
    ELSE None

QuickOpen(t) ==
    IF Len(t) >= 3 /\ IsKw(t[1], {"otkroj", "otkryt"}) /\ IsKw(t[2], {"fajl"})
    THEN Some(_build_command("files.open", [path |-> Rest(t, 3)]))
    ELSE None

QuickAppend(t) ==
    LET n == Len(t)
        i == IF n >= 6 /\ IsKw(t[1], {"dopishi", "dobav"}) /\ IsKw(t[2], {"v"})
                /\ IsKw(t[3], {"fajl"})
             THEN LazySep(t, 5) ELSE 0
    IN IF i = 0 THEN None
       ELSE Some(_build_command("files.append",
                [path |-> SubSeq(t, 4, i - 1), content |-> Rest(t, i + 1)]))

QuickHelp(t) ==
    IF Len(t) = 1 /\ IsKw(t[1], {"pomosch"})
    THEN Some(_build_command("system.help", <<>>)) ELSE None

QuickConfigGet(t) ==
    IF Len(t) = 2 /\ IsKw(t[1], {"konfig"}) /\ IsKw(t[2], {"pokazat"})
    THEN Some(_build_command("system.config_get", <<>>)) ELSE None

QuickConfigSet(t) ==
    IF Len(t) >= 4 /\ IsKw(t[1], {"konfig"}) /\ IsKw(t[2], {"ustanovit"})
    THEN Some(_build_command("system.config_set",
            [key |-> <<t[3]>>, value |-> Rest(t, 4)]))
    ELSE None

\* the ordered pattern table; the first pattern that matches wins
_PATTERN_BUILDERS(t) ==
    <<QuickCreateContent(t), QuickCreate(t), QuickRead(t), QuickList(t),
      QuickOpen(t), QuickAppend(t), QuickHelp(t), QuickConfigGet(t),
      QuickConfigSet(t)>>

RECURSIVE FirstMatch(_, _)
FirstMatch(tbl, i) ==
    IF i > Len(tbl) THEN None
    ELSE IF tbl[i].some /\ is_command(tbl[i].v) THEN tbl[i]
    ELSE FirstMatch(tbl, i + 1)

resolve_quick(t) ==
    IF t = <<>> THEN None ELSE FirstMatch(_PATTERN_BUILDERS(t), 1)

(***************************************************************************)
(* legacy_router.py                                                        *)
(***************************************************************************)
ALLOWED ==
    {"files.list", "files.read", "files.create", "files.append", "files.open",
     "files.reveal", "files.shortcut_to_desktop", "system.help",
     "system.config_get", "system.config_set", "management.execute"}

\* value.strip().strip('"').strip("'")
StripQuotes(val) ==
    [i \in 1..Len(val) |->
        [val[i] EXCEPT !.lq = IF i = 1 THEN FALSE ELSE @,
                       !.rq = IF i = Len(val) THEN FALSE ELSE @]]

_normalize_args(args) == [a \in DOMAIN args |-> StripQuotes(args[a])]

ValTok(s) == IF s = "" THEN <<>> ELSE <<N(s)>>

\* shlex.split, then every token must be key=value with a non-empty key;
\* None stands for ValueError("E_INVALID_MANAGEMENT_ARGS")
_parse_management_args(raw) ==
    IF \E i \in 1..Len(raw) : ~raw[i].eq \/ raw[i].k = "" THEN None
    ELSE LET keys == {raw[i].k : i \in 1..Len(raw)}
             last(k) == CHOOSE i \in 1..Len(raw) :
                           /\ raw[i].k = k
                           /\ \A j \in 1..Len(raw) : raw[j].k = k => j <= i
         IN Some([k \in keys |-> ValTok(raw[last(k)].v)])

\* one (command, args) pair per pattern of _PATTERNS, None when the pattern
\* does not match
LegacyOne(t, verb, cmd, arg) ==
    IF Len(t) = 2 /\ IsKw(t[1], {verb}) /\ IsQuoted(t[2])
    THEN Some([command |-> cmd, args |-> [a \in {arg} |-> <<Unquote(t[2])>>]])
    ELSE None

LegacyCreate(t) ==
    IF /\ Len(t) >= 6 /\ IsKw(t[1], {"sozdaj"}) /\ IsKw(t[2], {"fajl"})
       /\ IsQuoted(t[3]) /\ IsKw(t[4], {"s"}) /\ IsKw(t[5], {"soderzhimym"})
    THEN Some([command |-> "files.create",
               args |-> [path |-> <<Unquote(t[3])>>, content |-> Rest(t, 6)]])
    ELSE None

LegacyAppend(t) ==
    IF /\ Len(t) >= 5 /\ IsKw(t[1], {"dopishi"}) /\ IsKw(t[2], {"v"})
       /\ IsQuoted(t[3]) /\ IsKw(t[4], {"tekst"})
    THEN Some([command |-> "files.append",
               args |-> [path |-> <<Unquote(t[3])>>, content |-> Rest(t, 5)]])
    ELSE None

LegacyHelp(t) ==
    IF Len(t) = 1 /\ IsKw(t[1], {"pomosch"})
    THEN Some([command |-> "system.help", args |-> <<>>]) ELSE None

LegacyConfigGet(t) ==
    IF Len(t) = 2 /\ IsKw(t[1], {"konfig"}) /\ IsKw(t[2], {"pokazat"})
    THEN Some([command |-> "system.config_get", args |-> <<>>]) ELSE None

LegacyConfigSet(t) ==
    IF Len(t) >= 4 /\ IsKw(t[1], {"konfig"}) /\ IsKw(t[2], {"ustanovit"})
    THEN Some([command |-> "system.config_set",
               args |-> [key |-> <<t[3]>>, value |-> Rest(t, 4)]])
    ELSE None

LegacyManagement(t) ==
    IF /\ Len(t) >= 2 /\ IsKw(t[1], {"menedzhment", "upravlenie"})
       /\ t[2].word /\ ~t[2].lq /\ ~t[2].rq
    THEN Some([command |-> "management.execute",
               args |-> [action |-> <<t[2]>>, _extra |-> Rest(t, 3)]])
    ELSE None

_PATTERNS(t) ==
    <<LegacyOne(t, "fajly", "files.list", "mask"),
      LegacyOne(t, "prochitaj", "files.read", "path"),
      LegacyCreate(t),
      LegacyAppend(t),
      LegacyOne(t, "otkroj", "files.open", "path"),
      LegacyOne(t, "pokazhi", "files.reveal", "path"),
      LegacyOne(t, "yarlyk", "files.shortcut_to_desktop", "path"),
      LegacyHelp(t),
      LegacyConfigGet(t),
      LegacyConfigSet(t),
      LegacyManagement(t)>>

\* the body of the loop of legacy_route for one matching pattern: the Intent
\* it returns, or None when it continues with the next pattern
LegacyBuild(m) ==
    IF m.command \notin ALLOWED THEN None
    ELSE IF m.command = "management.execute"
    THEN LET extras == _parse_management_args(m.args._extra)
         IN IF ~extras.some THEN None
            ELSE LET ex == extras.v
                     payload == [k \in {"action"} \cup DOMAIN ex |->
                                    IF k \in DOMAIN ex THEN ex[k] ELSE m.args.action]
                 IN Some(command_intent(m.command, _normalize_args(payload),
                            None, Some("legacy_router"), Some("legacy"), FALSE, <<>>))
    ELSE Some(command_intent(m.command, _normalize_args(m.args),
                None, Some("legacy_router"), Some("legacy"), FALSE, <<>>))

RECURSIVE LegacyLoop(_, _, _)
LegacyLoop(t, tbl, i) ==
    IF i > Len(tbl) THEN chat_intent(t, Some("legacy_router"), <<"no_match">>)
    ELSE IF tbl[i].some /\ LegacyBuild(tbl[i].v).some THEN LegacyBuild(tbl[i].v).v
    ELSE LegacyLoop(t, tbl, i + 1)

legacy_route(t) == LegacyLoop(t, _PATTERNS(t), 1)

(***************************************************************************)
(* resolver.py                                                             *)
(***************************************************************************)
QuickConfidence == 99
FallbackConfidence == 49

\* ResolverService.__init__: set(config.whitelist or LEGACY_ALLOWED)
InitWhitelist(c) == IF c.whitelist = {} THEN ALLOWED ELSE c.whitelist

\* a JSON value of the remote response, tagged with its Python type
Absent == [t |-> "absent"]
Str(s) == [t |-> "str", s |-> s]
Num(n) == [t |-> "num", n |-> n]
NumStr(n) == [t |-> "numstr", n |-> n]
BadStr == [t |-> "badstr"]
List(x) == [t |-> "list", items |-> x]
Dict(x) == [t |-> "dict", fields |-> x]
Bool(b) == [t |-> "bool", b |-> b]

\* args of an Intent that were taken from a JSON value that is not an object
NotAMapping == [not_a_mapping |-> <<>>]

\* x or default, for an optional string
OrElse(x, d) == IF x.some /\ x.v # "" THEN x ELSE Some(d)

\* variant of _safe_float that answers 0.0 where float(value) raises
_safe_float_ZeroOnError(value) ==
    CASE value.t \in {"num", "numstr"} -> Some(value.n)
      [] value.t = "bool" -> Some(IF value.b THEN 100 ELSE 0)
      [] value.t = "absent" -> None
      [] OTHER -> Some(0)

\* float(value) with TypeError and ValueError turned into None; float(True)
\* is 1.0 and float(False) is 0.0
_safe_float(value) ==
    CASE value.t \in {"num", "numstr"} -> Some(value.n)
      [] value.t = "bool" -> Some(IF value.b THEN 100 ELSE 0)
      [] OTHER -> None

Truthy(value) ==
    CASE value.t = "absent" -> FALSE
      [] value.t = "str" -> value.s # ""
      [] value.t = "num" -> value.n # 0
      [] value.t = "list" -> value.items # <<>>
      [] value.t = "dict" -> value.fields # <<>>
      [] value.t = "bool" -> value.b
      [] OTHER -> TRUE

Returned(i) == [raised |-> "", intent |-> i]
Raised(exc) == [raised |-> exc, intent |-> NoIntent]

\* the part of _resolve_remote after the try block
RemoteDecode(wl, t, data) ==
    IF data.t # "dict" THEN Raised("AttributeError")
    ELSE
    LET d == data.fields
        command == d.command
        args == IF ~Truthy(d.args) THEN <<>>
                ELSE IF d.args.t = "dict" THEN d.args.fields ELSE NotAMapping
        confidence == _safe_float(d.confidence)
        fallback_used == Truthy(d.fallback_used)
        rule == IF Truthy(d.resolver_rule) THEN d.resolver_rule.s ELSE "remote"
        in_whitelist == command.t = "str" /\ command.s \in wl
    IN  IF Truthy(d.explain) /\ d.explain.t = "num" THEN Raised("TypeError")
        ELSE
        LET explain == IF Truthy(d.explain) THEN d.explain.items ELSE <<>>
        IN  IF (Truthy(command) \/ fallback_used) /\ command.t = "list"
            THEN Raised("TypeError")
            ELSE IF Truthy(command) /\ in_whitelist
            THEN Returned(command_intent(command.s, args, confidence, Some(rule),
                            Some("remote"), fallback_used, explain))
            ELSE IF fallback_used /\ in_whitelist
            THEN Returned(command_intent(command.s, args, confidence,
                            Some("remote_fallback"), Some("remote"), TRUE, explain))
            ELSE Returned(chat_intent(t, Some("remote_unhandled"), explain))

\* outcome of the HTTP post: an httpx.HTTPError (timeout, connection error,
\* error status), a body that is not JSON (ValueError), or a JSON value
HttpErrors == {"timeout", "connect_error", "http_status", "non_json"}

\* variant of _resolve_remote whose try block catches ValueError only
_resolve_remote_OnlyValueError(wl, t, resp) ==
    IF resp.kind = "non_json"
    THEN Returned(chat_intent(t, Some("remote_error"), <<"remote_error:" \o resp.kind>>))
    ELSE IF resp.kind \in HttpErrors THEN Raised("HTTPError")
    ELSE RemoteDecode(wl, t, resp.data)

_resolve_remote(wl, t, resp) ==
    IF resp.kind \in HttpErrors
    THEN Returned(chat_intent(t, Some("remote_error"), <<"remote_error:" \o resp.kind>>))
    ELSE RemoteDecode(wl, t, resp.data)

Outcome(i, exc, rc, lc) ==
    [intent |-> i, raised |-> exc, remote_calls |-> rc, legacy_calls |-> lc]

\* variant of the final fallback that does not test the whitelist
LegacyStage_NoWhitelist(wl, t, remote_chat, rc) ==
    LET legacy_intent == legacy_route(t)
    IN  IF is_command(legacy_intent)
        THEN Outcome(command_intent(legacy_intent.name.v, legacy_intent.args,
                        Some(FallbackConfidence), legacy_intent.meta.rule,
                        OrElse(legacy_intent.meta.source, "legacy"), TRUE,
                        legacy_intent.meta.explain),
                     "", rc, 1)
        ELSE IF remote_chat.some /\ ~is_command(remote_chat.v)
        THEN Outcome(remote_chat.v, "", rc, 1)
        ELSE Outcome(chat_intent(t, Some("chat"), <<>>), "", rc, 1)

\* the final fallback of resolve, lines 95-110
LegacyStage(wl, t, remote_chat, rc) ==
    LET legacy_intent == legacy_route(t)
    IN  IF is_command(legacy_intent) /\ legacy_intent.name.v \in wl
        THEN Outcome(command_intent(legacy_intent.name.v, legacy_intent.args,
                        Some(FallbackConfidence), legacy_intent.meta.rule,
                        OrElse(legacy_intent.meta.source, "legacy"), TRUE,
                        legacy_intent.meta.explain),
                     "", rc, 1)
        ELSE IF remote_chat.some /\ ~is_command(remote_chat.v)
        THEN Outcome(remote_chat.v, "", rc, 1)
        ELSE Outcome(chat_intent(t, Some("chat"), <<>>), "", rc, 1)

\* variant of the low-confidence branch that gives the substituted command
\* the fallback confidence
RemoteCommand_FallbackConfidence(c, t, remote_intent) ==
    IF ~remote_intent.meta.confidence.some
    THEN Outcome(remote_intent, "", 1, 0)
    ELSE IF c.use_legacy_when_low_conf
            /\ remote_intent.meta.confidence.v < c.low_conf_threshold
    THEN LET fallback == legacy_route(t)
         IN  IF is_command(fallback)
             THEN Outcome(command_intent(fallback.name.v, fallback.args,
                            Some(FallbackConfidence), fallback.meta.rule,
                            OrElse(fallback.meta.source, "legacy"), TRUE,
                            fallback.meta.explain),
                          "", 1, 1)
             ELSE Outcome(remote_intent, "", 1, 1)
    ELSE Outcome(remote_intent, "", 1, 0)

\* the branch taken when the remote stage returned a command, lines 70-91
RemoteCommand(c, t, remote_intent) ==
    IF ~remote_intent.meta.confidence.some
    THEN Outcome(remote_intent, "", 1, 0)
    ELSE IF c.use_legacy_when_low_conf
            /\ remote_intent.meta.confidence.v < c.low_conf_threshold
    THEN LET fallback == legacy_route(t)
         IN  IF is_command(fallback)
             THEN Outcome(command_intent(fallback.name.v, fallback.args,
                            remote_intent.meta.confidence, fallback.meta.rule,
                            OrElse(fallback.meta.source, "legacy"), TRUE,
                            fallback.meta.explain),
                          "", 1, 1)
             ELSE Outcome(remote_intent, "", 1, 1)
    ELSE Outcome(remote_intent, "", 1, 0)

\* variant of resolve in which mode "remote" bypasses the quick rules
resolve_RemoteModeSkipsQuick(c, wl, t, resp) ==
    LET quick == resolve_quick(t)
    IN  IF c.mode # "remote" /\ quick.some /\ quick.v.name.v \in wl
        THEN Outcome(command_intent(quick.v.name.v, quick.v.args,
                        Some(QuickConfidence), OrElse(quick.v.meta.rule, "quick"),
                        OrElse(quick.v.meta.source, "quick"), FALSE,
                        quick.v.meta.explain),
                     "", 0, 0)
        ELSE IF c.remote_url # "" /\ c.mode \in {"hybrid", "remote"}
        THEN LET r == _resolve_remote(wl, t, resp)
             IN  IF r.raised # "" THEN Outcome(NoIntent, r.raised, 1, 0)
                 ELSE IF is_command(r.intent) THEN RemoteCommand(c, t, r.intent)
                 ELSE LegacyStage(wl, t, Some(r.intent), 1)
        ELSE LegacyStage(wl, t, None, 0)

\* variant of resolve that calls the remote service whatever the mode
resolve_NoModeGate(c, wl, t, resp) ==
    LET quick == resolve_quick(t)
    IN  IF quick.some /\ quick.v.name.v \in wl
        THEN Outcome(command_intent(quick.v.name.v, quick.v.args,
                        Some(QuickConfidence), OrElse(quick.v.meta.rule, "quick"),
                        OrElse(quick.v.meta.source, "quick"), FALSE,
                        quick.v.meta.explain),
                     "", 0, 0)
        ELSE IF c.remote_url # ""
        THEN LET r == _resolve_remote(wl, t, resp)
             IN  IF r.raised # "" THEN Outcome(NoIntent, r.raised, 1, 0)
                 ELSE IF is_command(r.intent) THEN RemoteCommand(c, t, r.intent)
                 ELSE LegacyStage(wl, t, Some(r.intent), 1)
        ELSE LegacyStage(wl, t, None, 0)

resolve(c, wl, t, resp) ==
    LET quick == resolve_quick(t)
    IN  IF quick.some /\ quick.v.name.v \in wl
        THEN Outcome(command_intent(quick.v.name.v, quick.v.args,
                        Some(QuickConfidence), OrElse(quick.v.meta.rule, "quick"),
                        OrElse(quick.v.meta.source, "quick"), FALSE,
                        quick.v.meta.explain),
                     "", 0, 0)
        ELSE IF c.remote_url # "" /\ c.mode \in {"hybrid", "remote"}
        THEN LET r == _resolve_remote(wl, t, resp)
             IN  IF r.raised # "" THEN Outcome(NoIntent, r.raised, 1, 0)
                 ELSE IF is_command(r.intent) THEN RemoteCommand(c, t, r.intent)
                 ELSE LegacyStage(wl, t, Some(r.intent), 1)
        ELSE LegacyStage(wl, t, None, 0)

(***************************************************************************)
(* planner/policies.py, planner/planner.py                                 *)
(***************************************************************************)
PlanPolicy(acl_tags, confirmation_level) ==
    [acl_tags |-> acl_tags, confirmation_level |-> confirmation_level]

requires_confirmation(policy, provided_level) ==
    provided_level < policy.confirmation_level

build_policy(rule) == PlanPolicy(rule.acl, rule.confirmation_level)

PlanStep(step_id, tool, args, on_error) ==
    [step_id |-> step_id, tool |-> tool, args |-> args, on_error |-> on_error]

Plan(i, steps, policy, provenance, error) ==
    [intent |-> i, steps |-> steps,
     required_tools |-> [k \in 1..Len(steps) |-> steps[k].tool],
     policy |-> policy, provenance |-> provenance, error |-> error]

is_valid(p) == ~p.error.some /\ p.steps # <<>>

NoPlan == Plan(NoIntent, <<>>, PlanPolicy({}, 0), <<>>, Some("none"))

StepName(n) == <<"step1", "step2", "step3", "step4", "step5", "step6">>[n]

\* variant of the loop that gives every step the fixed args of the rule
RECURSIVE PlanSteps_RuleArgsOnly(_, _, _, _)
PlanSteps_RuleArgsOnly(raw, k, i, steps) ==
    IF k > Len(raw) THEN steps
    ELSE IF raw[k].tool = "" THEN PlanSteps_RuleArgsOnly(raw, k + 1, i, steps)
    ELSE LET step_id == IF raw[k].id # "" THEN raw[k].id
                        ELSE StepName(Len(steps) + 1)
             args == raw[k].args
         IN PlanSteps_RuleArgsOnly(raw, k + 1, i,
                Append(steps, PlanStep(step_id, raw[k].tool, args, raw[k].on_error)))

\* the loop over rule["steps"]: steps without a tool are skipped
RECURSIVE PlanSteps(_, _, _, _)
PlanSteps(raw, k, i, steps) ==
    IF k > Len(raw) THEN steps
    ELSE IF raw[k].tool = "" THEN PlanSteps(raw, k + 1, i, steps)
    ELSE LET step_id == IF raw[k].id # "" THEN raw[k].id
                        ELSE StepName(Len(steps) + 1)
             args == IF raw[k].use_intent_args THEN i.args ELSE raw[k].args
         IN PlanSteps(raw, k + 1, i,
                Append(steps, PlanStep(step_id, raw[k].tool, args, raw[k].on_error)))

\* a rule that is an empty mapping
EmptyRule == <<>>

\* variant of Planner.plan that never sets E_EMPTY_PLAN
PlannerPlan_NoEmptyError(rl, i, ctx) ==
    IF ~is_command(i)
    THEN [raised |-> "",
          plan |-> Plan(i, <<>>, PlanPolicy({}, 0),
                        [planner_rule_id |-> None, reason |-> "not_command"],
                        Some("E_NOT_COMMAND"))]
    ELSE IF i.name.v \notin DOMAIN rl \/ DOMAIN rl[i.name.v] = {}
    THEN [raised |-> "",
          plan |-> Plan(i, <<>>, PlanPolicy({}, 0),
                        [planner_rule_id |-> None, reason |-> "missing_rule",
                         intent |-> i.name.v],
                        Some("E_NO_RULE"))]
    ELSE LET rule == rl[i.name.v]
             raw == rule.steps
         IN IF \E k \in 1..Len(raw) :
                  raw[k].tool # "" /\ raw[k].use_intent_args /\ i.args = NotAMapping
            THEN [raised |-> "ValueError", plan |-> NoPlan]
            ELSE LET steps == PlanSteps(raw, 1, i, <<>>)
                 IN [raised |-> "",
                     plan |-> Plan(i, steps, build_policy(rule),
                                [planner_rule_id |-> OrElse(rule.rule_id, i.name.v),
                                 acl |-> rule.acl, context |-> ctx],
                                None)]

\* variant of Planner.plan whose steps list lives on the Planner and is not
\* cleared between calls
KeptSteps ==
    IF first_plan.some /\ first_plan.v.raised = "" THEN first_plan.v.plan.steps
    ELSE <<>>

PlannerPlan_KeptSteps(rl, i, ctx) ==
    IF ~is_command(i)
    THEN [raised |-> "",
          plan |-> Plan(i, <<>>, PlanPolicy({}, 0),
                        [planner_rule_id |-> None, reason |-> "not_command"],
                        Some("E_NOT_COMMAND"))]
    ELSE IF i.name.v \notin DOMAIN rl \/ DOMAIN rl[i.name.v] = {}
    THEN [raised |-> "",
          plan |-> Plan(i, <<>>, PlanPolicy({}, 0),
                        [planner_rule_id |-> None, reason |-> "missing_rule",
                         intent |-> i.name.v],
                        Some("E_NO_RULE"))]
    ELSE LET rule == rl[i.name.v]
             raw == rule.steps
         IN IF \E k \in 1..Len(raw) :
                  raw[k].tool # "" /\ raw[k].use_intent_args /\ i.args = NotAMapping
            THEN [raised |-> "ValueError", plan |-> NoPlan]
            ELSE LET steps == PlanSteps(raw, 1, i, KeptSteps)
                 IN [raised |-> "",
                     plan |-> Plan(i, steps, build_policy(rule),
                                [planner_rule_id |-> OrElse(rule.rule_id, i.name.v),
                                 acl |-> rule.acl, context |-> ctx],
                                IF steps # <<>> THEN None ELSE Some("E_EMPTY_PLAN"))]

\* Planner.plan; dict(intent.args) raises when the args are not a mapping
PlannerPlan(rl, i, ctx) ==
    IF ~is_command(i)
    THEN [raised |-> "",
          plan |-> Plan(i, <<>>, PlanPolicy({}, 0),
                        [planner_rule_id |-> None, reason |-> "not_command"],
                        Some("E_NOT_COMMAND"))]
    ELSE IF i.name.v \notin DOMAIN rl \/ DOMAIN rl[i.name.v] = {}
    THEN [raised |-> "",
          plan |-> Plan(i, <<>>, PlanPolicy({}, 0),
                        [planner_rule_id |-> None, reason |-> "missing_rule",
                         intent |-> i.name.v],
                        Some("E_NO_RULE"))]
    ELSE LET rule == rl[i.name.v]
             raw == rule.steps
         IN IF \E k \in 1..Len(raw) :
                  raw[k].tool # "" /\ raw[k].use_intent_args /\ i.args = NotAMapping
            THEN [raised |-> "ValueError", plan |-> NoPlan]
            ELSE LET steps == PlanSteps(raw, 1, i, <<>>)
                 IN [raised |-> "",
                     plan |-> Plan(i, steps, build_policy(rule),
                                [planner_rule_id |-> OrElse(rule.rule_id, i.name.v),
                                 acl |-> rule.acl, context |-> ctx],
                                IF steps # <<>> THEN None ELSE Some("E_EMPTY_PLAN"))]

(***************************************************************************)
(* executor/registry.py, executor/executor.py                              *)
(***************************************************************************)
ToolMetadata(name, acl_tag, side_effect, idempotent) ==
    [name |-> name, acl_tag |-> acl_tag, side_effect |-> side_effect,
     idempotent |-> idempotent]

TOOL_METADATA ==
    ("files.list" :> ToolMetadata("files.list", "fs.read", FALSE, TRUE)) @@
    ("files.read" :> ToolMetadata("files.read", "fs.read", FALSE, TRUE)) @@
    ("files.create" :> ToolMetadata("files.create", "fs.write", TRUE, FALSE)) @@
    ("files.append" :> ToolMetadata("files.append", "fs.write", TRUE, FALSE)) @@
    ("files.open" :> ToolMetadata("files.open", "fs.desktop", TRUE, FALSE)) @@
    ("files.reveal" :> ToolMetadata("files.reveal", "fs.desktop", TRUE, FALSE)) @@
    ("files.shortcut_to_desktop" :>
        ToolMetadata("files.shortcut_to_desktop", "fs.desktop", TRUE, FALSE)) @@
    ("system.help" :> ToolMetadata("system.help", "system", FALSE, TRUE)) @@
    ("system.config_get" :> ToolMetadata("system.config_get", "system", FALSE, TRUE)) @@
    ("system.config_set" :> ToolMetadata("system.config_set", "system", TRUE, FALSE))

\* TOOL_METADATA.get(name)
get_tool_metadata(name) ==
    IF name \in DOMAIN TOOL_METADATA THEN Some(TOOL_METADATA[name]) ELSE None

ExecutionEvent(step_id, tool, ok, result, error) ==
    [step_id |-> step_id, tool |-> tool, ok |-> ok, result |-> result,
     error |-> error]

ExecutionResult(ok, result, events, errors) ==
    [ok |-> ok, result |-> result, events |-> events, errors |-> errors]

TransportResponse(ok, result, error) ==
    [ok |-> ok, result |-> result, error |-> error]

\* variant of the ACL gate with the membership test inverted
AclDenied_Inverted(strict, allowed_tags, tool) ==
    LET meta == get_tool_metadata(tool)
    IN strict /\ meta.some /\ allowed_tags # {} /\ meta.v.acl_tag \in allowed_tags

\* the ACL gate evaluated before a step is dispatched
AclDenied(strict, allowed_tags, tool) ==
    LET meta == get_tool_metadata(tool)
    IN strict /\ meta.some /\ allowed_tags # {} /\ meta.v.acl_tag \notin allowed_tags

\* variant of the loop that does not stop at a failed step
RECURSIVE ExecLoop_NoBreak(_, _, _, _, _)
ExecLoop_NoBreak(p, strict, reply, k, acc) ==
    IF k > Len(p.steps) THEN acc
    ELSE
    LET step == p.steps[k]
    IN  IF AclDenied(strict, p.policy.acl_tags, step.tool)
        THEN LET err == "E_ACL_DENY:" \o step.tool
             IN [acc EXCEPT
                    !.errors = Append(@, err),
                    !.events = Append(@, ExecutionEvent(step.step_id, step.tool,
                                            FALSE, None, Some(err)))]
        ELSE
        LET resp == reply[k]
            sent == [acc EXCEPT
                        !.dispatched = Append(@, step.tool),
                        !.events = Append(@, ExecutionEvent(step.step_id, step.tool,
                                            resp.ok, resp.result, resp.error))]
        IN  IF ~resp.ok
            THEN LET failed == [sent EXCEPT !.errors =
                                    Append(@, OrElse(resp.error, "E_COMMAND_FAILED").v)]
                 IN ExecLoop_NoBreak(p, strict, reply, k + 1, failed)
            ELSE ExecLoop_NoBreak(p, strict, reply, k + 1,
                          [sent EXCEPT !.last_result = resp.result])

\* variant of the loop that takes the result of a failed step as well
RECURSIVE ExecLoop_AnyResult(_, _, _, _, _)
ExecLoop_AnyResult(p, strict, reply, k, acc) ==
    IF k > Len(p.steps) THEN acc
    ELSE
    LET step == p.steps[k]
    IN  IF AclDenied(strict, p.policy.acl_tags, step.tool)
        THEN LET err == "E_ACL_DENY:" \o step.tool
             IN [acc EXCEPT
                    !.errors = Append(@, err),
                    !.events = Append(@, ExecutionEvent(step.step_id, step.tool,
                                            FALSE, None, Some(err)))]
        ELSE
        LET resp == reply[k]
            sent == [acc EXCEPT
                        !.dispatched = Append(@, step.tool),
                        !.events = Append(@, ExecutionEvent(step.step_id, step.tool,
                                            resp.ok, resp.result, resp.error))]
        IN  IF ~resp.ok
            THEN LET failed == [sent EXCEPT !.errors =
                                    Append(@, OrElse(resp.error, "E_COMMAND_FAILED").v),
                                  !.last_result = resp.result]
                 IN IF step.on_error # "continue" THEN failed
                    ELSE ExecLoop_AnyResult(p, strict, reply, k + 1, failed)
            ELSE ExecLoop_AnyResult(p, strict, reply, k + 1,
                          [sent EXCEPT !.last_result = resp.result])

\* the loop over plan.steps from step k on; reply[k] is what the transport
\* answers when step k is dispatched.  acc holds events, errors, last_result
\* and the tools dispatched so far.
RECURSIVE ExecLoop(_, _, _, _, _)
ExecLoop(p, strict, reply, k, acc) ==
    IF k > Len(p.steps) THEN acc
    ELSE
    LET step == p.steps[k]
    IN  IF AclDenied(strict, p.policy.acl_tags, step.tool)
        THEN LET err == "E_ACL_DENY:" \o step.tool
             IN [acc EXCEPT
                    !.errors = Append(@, err),
                    !.events = Append(@, ExecutionEvent(step.step_id, step.tool,
                                            FALSE, None, Some(err)))]
        ELSE
        LET resp == reply[k]
            sent == [acc EXCEPT
                        !.dispatched = Append(@, step.tool),
                        !.events = Append(@, ExecutionEvent(step.step_id, step.tool,
                                            resp.ok, resp.result, resp.error))]
        IN  IF ~resp.ok
            THEN LET failed == [sent EXCEPT !.errors =
                                    Append(@, OrElse(resp.error, "E_COMMAND_FAILED").v)]
                 IN IF step.on_error # "continue" THEN failed
                    ELSE ExecLoop(p, strict, reply, k + 1, failed)
            ELSE ExecLoop(p, strict, reply, k + 1,
                          [sent EXCEPT !.last_result = resp.result])

\* variant of Executor.execute that puts each event in front of the list
Execute_EventsPrepended(p, strict, reply) ==
    IF ~is_valid(p)
    THEN [result |-> ExecutionResult(FALSE, None, <<>>,
                        <<OrElse(p.error, "E_INVALID_PLAN").v>>),
          dispatched |-> <<>>]
    ELSE LET acc == ExecLoop(p, strict, reply, 1,
                        [events |-> <<>>, errors |-> <<>>, last_result |-> None,
                         dispatched |-> <<>>])
         IN [result |-> ExecutionResult(acc.errors = <<>>, acc.last_result,
                            [n \in 1..Len(acc.events) |->
                                acc.events[Len(acc.events) + 1 - n]],
                            acc.errors),
             dispatched |-> acc.dispatched]

\* variant of Executor.execute that takes ok from the last event
Execute_OkOfLastEvent(p, strict, reply) ==
    IF ~is_valid(p)
    THEN [result |-> ExecutionResult(FALSE, None, <<>>,
                        <<OrElse(p.error, "E_INVALID_PLAN").v>>),
          dispatched |-> <<>>]
    ELSE LET acc == ExecLoop(p, strict, reply, 1,
                        [events |-> <<>>, errors |-> <<>>, last_result |-> None,
                         dispatched |-> <<>>])
         IN [result |-> ExecutionResult(acc.events[Len(acc.events)].ok, acc.last_result,
                            acc.events, acc.errors),
             dispatched |-> acc.dispatched]

\* Executor.execute: the ExecutionResult and the tools handed to the transport
Execute(p, strict, reply) ==
    IF ~is_valid(p)
    THEN [result |-> ExecutionResult(FALSE, None, <<>>,
                        <<OrElse(p.error, "E_INVALID_PLAN").v>>),
          dispatched |-> <<>>]
    ELSE LET acc == ExecLoop(p, strict, reply, 1,
                        [events |-> <<>>, errors |-> <<>>, last_result |-> None,
                         dispatched |-> <<>>])
         IN [result |-> ExecutionResult(acc.errors = <<>>, acc.last_result,
                            acc.events, acc.errors),
             dispatched |-> acc.dispatched]

(***************************************************************************)
(* core/executor/transports.py, toolrunner/registry.py                     *)
(***************************************************************************)
\* a response body that is not JSON; s is response.text
NotJson(s) == [t |-> "notjson", s |-> s]

\* value of a JSON member as Python sees it (None for null or absent)
PyValue(value) == IF value.t = "absent" THEN None ELSE Some(value)
PyString(value) == IF value.t = "str" THEN Some(value.s) ELSE None

\* outcome of client.post: an httpx.HTTPError, or a response with a status
\* code and a body
HttpRaised(exc) == [kind |-> "http_error", exc |-> exc, status |-> 0, body |-> Absent]
HttpReply(status, body) == [kind |-> "response", exc |-> "", status |-> status, body |-> body]
NoCollaborator == [kind |-> "none", exc |-> "", status |-> 0, body |-> Absent]

TransportReturned(r) == [raised |-> "", response |-> Some(r)]
TransportRaised(exc) == [raised |-> exc, response |-> None]

\* HttpToolTransport.execute
HttpToolTransportExecute(reply) ==
    IF reply.kind = "http_error"
    THEN TransportReturned(TransportResponse(FALSE, None, Some("E_HTTP:" \o reply.exc)))
    ELSE IF reply.status >= 400
    THEN LET detail == IF reply.body.t = "notjson" THEN Str(reply.body.s)
                       ELSE IF reply.body.t = "dict" THEN reply.body.fields.detail
                       ELSE Absent
         IN TransportReturned(TransportResponse(FALSE, None,
                IF Truthy(detail) THEN Some(detail.s) ELSE Some("E_COMMAND_FAILED")))
    ELSE IF reply.body.t = "notjson"
    THEN TransportReturned(TransportResponse(FALSE, None, Some("E_BAD_RESPONSE:not json")))
    ELSE IF reply.body.t # "dict" THEN TransportRaised("AttributeError")
    ELSE LET body == reply.body.fields
         IN TransportReturned(TransportResponse(
                IF body.ok.t = "absent" THEN TRUE ELSE Truthy(body.ok),
                PyValue(body.result), PyString(body.error)))

\* toolrunner.registry.REGISTRY
REGISTRY ==
    {"files.list", "files.read", "files.create", "files.append", "files.open",
     "files.reveal", "files.shortcut_to_desktop", "system.help",
     "system.config_get", "system.config_set"}

\* outcome of handler(normalized, config): a returned value or an exception
\* with class exc and message msg
HandlerReturned(value) ==
    [kind |-> "returned", value |-> value, exc |-> "", msg |-> ""]
HandlerRaised(exc, msg) ==
    [kind |-> "raised", value |-> Absent, exc |-> exc, msg |-> msg]

\* msg.startswith("E_"), over the messages the handlers are given here
StartsWithE(msg) == msg \in {"E_", "E_ARG_MISSING:path", "E_PATH_OUTSIDE_WORKSPACE"}

NoHandler == [kind |-> "none", value |-> Absent, exc |-> "", msg |-> ""]

\* LocalToolTransport.execute
LocalToolTransportExecute(tool, outcome) ==
    IF tool \notin REGISTRY
    THEN TransportReturned(TransportResponse(FALSE, None, Some("E_UNKNOWN_COMMAND")))
    ELSE IF outcome.kind = "returned"
    THEN TransportReturned(TransportResponse(TRUE, PyValue(outcome.value), None))
    ELSE IF StartsWithE(outcome.msg)
    THEN TransportReturned(TransportResponse(FALSE, None, Some(outcome.msg)))
    ELSE TransportReturned(TransportResponse(FALSE, None,
                                Some("E_RUNTIME:" \o outcome.msg)))

(***************************************************************************)
(* toolrunner/app.py, toolrunner/security.py                               *)
(***************************************************************************)
\* what the tool server answers to POST /execute
ExecuteBody(ok, result, error, detail) ==
    Dict([ok |-> ok, result |-> result, error |-> error, detail |-> detail])

\* toolrunner.registry.ALLOWED_COMMANDS
ALLOWED_COMMANDS ==
    {"files.list", "files.read", "files.create", "files.append", "files.open",
     "files.reveal", "files.shortcut_to_desktop", "system.help",
     "system.config_get", "system.config_set"}

\* raise HTTPException(status_code, detail): the reply FastAPI makes of it
HTTPException(status_code, detail) ==
    HttpReply(status_code, ExecuteBody(Absent, Absent, Absent, Str(detail)))

\* the reply the server makes of an exception that escapes the endpoint
InternalServerError == HttpReply(500, NotJson("Internal Server Error"))

\* return ExecOut(ok=True, result=result)
ExecOut(result) == HttpReply(200, ExecuteBody(Bool(TRUE), result, Absent, Absent))

\* what the endpoint did: its reply and the handlers it invoked
Served(reply, invoked) == [reply |-> reply, invoked |-> invoked]

\* execute(req, payload) of POST /execute; authorized is False when a shared
\* token is configured and the request does not carry it
ToolrunnerExecute(command, outcome, authorized) ==
    IF ~authorized THEN Served(HTTPException(401, "E_UNAUTHORIZED"), <<>>)
    ELSE IF command \notin ALLOWED_COMMANDS
    THEN Served(InternalServerError, <<>>)
    ELSE IF command \notin REGISTRY
    THEN Served(HTTPException(400, "E_UNKNOWN_COMMAND"), <<>>)
    ELSE IF outcome.kind = "returned"
    THEN Served(ExecOut(outcome.value), <<command>>)
    ELSE IF outcome.exc = "ValueError" /\ StartsWithE(outcome.msg)
    THEN Served(HTTPException(400, outcome.msg), <<command>>)
    ELSE Served(HTTPException(400, "E_RUNTIME:" \o outcome.msg), <<command>>)

(***************************************************************************)
(* core/pipeline.py                                                        *)
(***************************************************************************)
\* PipelineResult.ok
PipelineResultOk(ex) == IF ex.some THEN ex.v.ok ELSE FALSE

\* variant of Pipeline.handle that hands every Plan to the Executor
PipelineHandle_NoValidGate(c, wl, rl, strict, t, resp, reply) ==
    LET r == resolve(c, wl, t, resp)
    IN  IF r.raised # ""
        THEN [resolved |-> r, raised |-> r.raised, plan |-> None,
              execution |-> None, dispatched |-> <<>>, stages |-> <<"resolver">>]
        ELSE IF ~is_command(r.intent)
        THEN [resolved |-> r, raised |-> "", plan |-> None, execution |-> None,
              dispatched |-> <<>>, stages |-> <<"resolver">>]
        ELSE LET pl == PlannerPlan(rl, r.intent, <<>>)
             IN  IF pl.raised # ""
                 THEN [resolved |-> r, raised |-> pl.raised, plan |-> None,
                       execution |-> None, dispatched |-> <<>>,
                       stages |-> <<"resolver", "planner">>]
                 ELSE LET ex == Execute(pl.plan, strict, reply)
                      IN [resolved |-> r, raised |-> "", plan |-> Some(pl.plan),
                          execution |-> Some(ex.result),
                          dispatched |-> ex.dispatched,
                          stages |-> <<"resolver", "planner", "executor">>]

\* Pipeline.handle: resolve, then plan if the Intent is a command, then
\* execute if the Plan is valid.  plan / execution are None when the stage
\* was not run.
PipelineHandle(c, wl, rl, strict, t, resp, reply) ==
    LET r == resolve(c, wl, t, resp)
    IN  IF r.raised # ""
        THEN [resolved |-> r, raised |-> r.raised, plan |-> None,
              execution |-> None, dispatched |-> <<>>, stages |-> <<"resolver">>]
        ELSE IF ~is_command(r.intent)
        THEN [resolved |-> r, raised |-> "", plan |-> None, execution |-> None,
              dispatched |-> <<>>, stages |-> <<"resolver">>]
        ELSE LET pl == PlannerPlan(rl, r.intent, <<>>)
             IN  IF pl.raised # ""
                 THEN [resolved |-> r, raised |-> pl.raised, plan |-> None,
                       execution |-> None, dispatched |-> <<>>,
                       stages |-> <<"resolver", "planner">>]
                 ELSE IF ~is_valid(pl.plan)
                 THEN [resolved |-> r, raised |-> "", plan |-> Some(pl.plan),
                       execution |-> None, dispatched |-> <<>>,
                       stages |-> <<"resolver", "planner">>]
                 ELSE LET ex == Execute(pl.plan, strict, reply)
                      IN [resolved |-> r, raised |-> "", plan |-> Some(pl.plan),
                          execution |-> Some(ex.result),
                          dispatched |-> ex.dispatched,
                          stages |-> <<"resolver", "planner", "executor">>]

(***************************************************************************)
(* core/controller/app.py                                                  *)
(***************************************************************************)
\* controller.contracts.ChatOut; text is left out
ChatOut(type, command, args, ok, result, error, meta) ==
    [type |-> type, command |-> command, args |-> args, ok |-> ok,
     result |-> result, error |-> error, meta |-> meta]

\* _clean_arg on a value without outer blanks: a pair of outer quotes goes
_clean_arg(val) ==
    IF Len(val) >= 1 /\ val[1].lq /\ val[Len(val)].rq
    THEN [i \in 1..Len(val) |->
            [val[i] EXCEPT !.lq = IF i = 1 THEN FALSE ELSE @,
                           !.rq = IF i = Len(val) THEN FALSE ELSE @]]
    ELSE val

\* the argument clean-up at the head of _proxy_toolrunner
ProxyArgs(args) ==
    LET renamed == IF "text" \in DOMAIN args /\ "content" \notin DOMAIN args
                   THEN [k \in (DOMAIN args \ {"text"}) \cup {"content"} |->
                            IF k = "content" THEN args.text ELSE args[k]]
                   ELSE args
    IN [k \in DOMAIN renamed |->
            IF k \in {"path", "pattern", "mask", "name", "content"}
            THEN _clean_arg(renamed[k]) ELSE renamed[k]]

\* what _proxy_toolrunner answered and whether it posted to the toolrunner
Proxied(out, posted) == [out |-> out, posted |-> posted]

\* the ChatOut _proxy_toolrunner makes of the outcome of client.post
ProxyDecode(cmd, args, meta, reply) ==
    LET failed(error) ==
            ChatOut("command", Some(cmd), args, Some(FALSE), None, Some(error), meta)
    IN  IF reply.kind = "http_error" THEN failed("E_TOOLRUNNER:" \o reply.exc)
        ELSE IF reply.body.t = "notjson"
        THEN IF reply.status >= 400 THEN failed(reply.body.s)
             ELSE failed("E_TOOLRUNNER:JSONDecodeError")
        ELSE IF reply.body.t # "dict" THEN failed("E_TOOLRUNNER:AttributeError")
        ELSE LET data == reply.body.fields
             IN  IF reply.status >= 400
                 THEN IF data.detail.t = "absent" THEN failed("E_COMMAND_FAILED")
                      ELSE IF data.detail.t = "str" THEN failed(data.detail.s)
                      ELSE failed("E_TOOLRUNNER:ValidationError")
                 ELSE IF data.error.t \notin {"absent", "str"}
                 THEN failed("E_TOOLRUNNER:ValidationError")
                 ELSE ChatOut("command", Some(cmd), args, Some(Truthy(data.ok)),
                              PyValue(data.result), PyString(data.error), meta)

\* variant of _proxy_toolrunner without the test against ALLOWED
_proxy_toolrunner_NoAllowList(proxy_commands, cmd, args, meta, reply) ==
    IF proxy_commands
    THEN Proxied(ProxyDecode(cmd, ProxyArgs(args), meta, reply), TRUE)
    ELSE Proxied(ChatOut("command", Some(cmd), ProxyArgs(args), None, None, None,
                         meta), FALSE)

\* _proxy_toolrunner(cmd, args, meta=meta); reply is the outcome of the post
\* to the toolrunner, if one is made
_proxy_toolrunner(proxy_commands, cmd, args, meta, reply) ==
    IF cmd \notin ALLOWED
    THEN Proxied(ChatOut("command", Some(cmd), ProxyArgs(args), Some(FALSE), None,
                         Some("E_UNKNOWN_COMMAND"), meta), FALSE)
    ELSE IF proxy_commands
    THEN Proxied(ProxyDecode(cmd, ProxyArgs(args), meta, reply), TRUE)
    ELSE Proxied(ChatOut("command", Some(cmd), ProxyArgs(args), None, None, None,
                         meta), FALSE)

\* _RESOLVER_TO_TOOL: each of its names is mapped to itself
_RESOLVER_TO_TOOL ==
    {"files.list", "files.read", "files.create", "files.append", "files.open",
     "files.reveal", "files.shortcut_to_desktop", "system.help",
     "system.config_get", "system.config_set"}

\* the dicts _ru_quick_intent, route and _from_resolver return
CommandDecision(command, args) ==
    [type |-> "command", command |-> command, args |-> args]
ChatDecision == [type |-> "chat", command |-> "", args |-> <<>>]

\* one pattern of _RU_PATTERNS of the form "<verb> fajl (.+)"
RuFile(t, verbs, cmd) ==
    IF Len(t) >= 3 /\ IsKw(t[1], verbs) /\ IsKw(t[2], {"fajl"})
    THEN Some(CommandDecision(cmd,
            IF cmd = "files.create"
            THEN [path |-> _clean_arg(Rest(t, 3)), content |-> <<>>]
            ELSE [path |-> _clean_arg(Rest(t, 3))]))
    ELSE None

RuList(t) ==
    IF Len(t) >= 1 /\ IsKw(t[1], {"pokazhi", "spisok", "fajly"})
    THEN Some(CommandDecision("files.list",
            [mask |-> IF Len(t) >= 2 THEN _clean_arg(Rest(t, 2)) ELSE <<N("*")>>]))
    ELSE None

RuAppend(t) ==
    LET i == IF /\ Len(t) >= 6 /\ IsKw(t[1], {"dopishi", "dobav"})
                /\ IsKw(t[2], {"v"}) /\ IsKw(t[3], {"fajl"})
             THEN LazySep(t, 5) ELSE 0
    IN IF i = 0 THEN None
       ELSE Some(CommandDecision("files.append",
                [path |-> _clean_arg(SubSeq(t, 4, i - 1)),
                 content |-> _clean_arg(Rest(t, i + 1))]))

_RU_PATTERNS(t) ==
    <<RuFile(t, {"sozdaj", "sozdat"}, "files.create"),
      RuFile(t, {"prochitaj", "prochitat"}, "files.read"),
      RuList(t),
      RuFile(t, {"otkroj", "otkryt"}, "files.open"),
      RuAppend(t)>>

\* _ru_quick_intent: the first pattern that matches
_ru_quick_intent(t) ==
    LET tbl == _RU_PATTERNS(t)
        hits == {i \in 1..Len(tbl) : tbl[i].some}
    IN IF hits = {} THEN None
       ELSE tbl[CHOOSE i \in hits : \A j \in hits : i <= j]

\* controller.router.route
route(t) ==
    LET i == legacy_route(t)
    IN IF is_command(i) THEN CommandDecision(i.name.v, i.args) ELSE ChatDecision

Decided(decision) == [raised |-> "", decision |-> decision]
DecisionRaised(exc) == [raised |-> exc, decision |-> ChatDecision]

\* _from_resolver; res is what the post of ResolverAdapter.resolve came to.
\* _use_legacy_when_low_conf and _low_conf_threshold have their defaults
\* (True, 0.50)
_from_resolver(t, res) ==
    LET fb == _ru_quick_intent(t)
    IN  IF fb.some /\ fb.v.command \in ALLOWED THEN Decided(fb.v)
        ELSE IF res.kind = "non_json" THEN DecisionRaised("JSONDecodeError")
        ELSE IF res.kind \in HttpErrors THEN Decided(route(t))
        ELSE IF ~Truthy(res.data) THEN Decided(route(t))
        ELSE IF res.data.t # "dict" THEN DecisionRaised("AttributeError")
        ELSE
        LET d == res.data.fields
            mapped_cmd == IF d.command.t = "str" /\ d.command.s \in _RESOLVER_TO_TOOL
                          THEN d.command.s ELSE ""
            mapped_args == IF Truthy(d.args) THEN d.args.fields ELSE <<>>
            conf == CASE d.confidence.t \in {"num", "numstr"} -> d.confidence.n
                      [] d.confidence.t = "bool" -> IF d.confidence.b THEN 100 ELSE 0
                      [] OTHER -> 0
        IN  IF Truthy(d.error) THEN Decided(route(t))
            ELSE IF d.command.t \in {"list", "dict"} THEN DecisionRaised("TypeError")
            ELSE IF d.confidence.t = "badstr" THEN DecisionRaised("ValueError")
            ELSE IF d.confidence.t \in {"list", "dict"} THEN DecisionRaised("TypeError")
            ELSE IF conf < 50 THEN Decided(route(t))
            ELSE IF mapped_cmd # "" THEN Decided(CommandDecision(mapped_cmd, mapped_args))
            ELSE Decided(route(t))

\* the steps of the Plan a handle call would hand to the Executor
PlannedSteps(c, wl, rl, t, resp) ==
    LET r == resolve(c, wl, t, resp)
    IN  IF r.raised # "" \/ ~is_command(r.intent) THEN <<>>
        ELSE LET pl == PlannerPlan(rl, r.intent, <<>>)
             IN IF pl.raised # "" THEN <<>> ELSE pl.plan.steps

\* what the HttpToolTransport of build_http_pipeline returns for each step
\* when the toolrunner's handlers behave as outcomes
ToolrunnerReplies(steps, outcomes) ==
    [k \in 1..Len(steps) |->
        HttpToolTransportExecute(
            ToolrunnerExecute(steps[k].tool, outcomes[k], TRUE).reply).response.v]

\* the handlers the toolrunner invokes for a sequence of execute requests
HandlersInvoked(cmds) ==
    SelectSeq(cmds, LAMBDA c : ToolrunnerExecute(c, NoHandler, TRUE).invoked # <<>>)

\* meta of a ChatOut: the resolver's confidence is the member that is read
ChatMeta(i) == Some([confidence |-> i.meta.confidence])

\* _chat_with_model: the model's reply
ModelReply(meta) == ChatOut("chat", None, <<>>, None, None, None, meta)

NotHandled ==
    [resolved |-> Outcome(NoIntent, "", 0, 0), raised |-> "", plan |-> None,
     execution |-> None, dispatched |-> <<>>, stages |-> <<>>]

\* what chat did: the exception that escaped it or the ChatOut it returned,
\* the result of the handle call, the execute requests the toolrunner got
Chatted(exc, out, handled, posts) ==
    [raised |-> exc, out |-> out, handled |-> handled, requests |-> posts]

\* the part of chat after the pipeline: the decision dec of _from_resolver,
\* then the proxy or the model
ChatFallback(ctl, dec, outcome, meta, handled) ==
    IF dec.raised # "" THEN Chatted(dec.raised, None, handled, handled.dispatched)
    ELSE IF dec.decision.type = "command"
    THEN LET cmd == dec.decision.command
             px == _proxy_toolrunner(ctl.proxy_commands, cmd, dec.decision.args,
                        meta, ToolrunnerExecute(cmd, outcome, TRUE).reply)
         IN Chatted("", Some(px.out), handled,
                handled.dispatched \o (IF px.posted THEN <<cmd>> ELSE <<>>))
    ELSE Chatted("", Some(ModelReply(meta)), handled, handled.dispatched)

\* chat(inp) of POST /chat; result is what _pipeline.handle returned, dec
\* what _from_resolver returns if it is called
ControllerChat(ctl, result, dec, outcome) ==
    IF ~ctl.planner_enabled THEN ChatFallback(ctl, dec, outcome, None, NotHandled)
    ELSE IF result.raised # "" THEN Chatted(result.raised, None, result, <<>>)
    ELSE IF ~is_command(result.resolved.intent)
    THEN Chatted("", Some(ModelReply(ChatMeta(result.resolved.intent))), result, <<>>)
    ELSE IF result.plan.some /\ result.execution.some
    THEN IF result.resolved.intent.args = NotAMapping
         THEN Chatted("ValueError", None, result, result.dispatched)
         ELSE Chatted("",
                Some(ChatOut("command", result.resolved.intent.name,
                        result.resolved.intent.args, Some(result.execution.v.ok),
                        result.execution.v.result,
                        IF result.execution.v.errors = <<>> THEN None
                        ELSE Some(result.execution.v.errors[
                                    Len(result.execution.v.errors)]),
                        ChatMeta(result.resolved.intent))),
                result, result.dispatched)
    ELSE ChatFallback(ctl, dec, outcome, ChatMeta(result.resolved.intent), result)

(***************************************************************************)
(* tools_cli/jarvis_cli.py                                                 *)
(***************************************************************************)
\* whether run_once goes on to do_execute for the answer of /chat: the
\* answer is a command, and no_exec, a declined confirmation (yes is the
\* user's answer to the prompt) or ui.auto_exec did not stop it
RunOnceExecutes(u, chatted, no_exec, yes) ==
    /\ chatted.raised = ""
    /\ chatted.out.v.type = "command"
    /\ chatted.out.v.command.some /\ chatted.out.v.command.v # ""
    /\ ~no_exec
    /\ ~ /\ u.confirm_on_low_conf
         /\ chatted.out.v.meta.some
         /\ chatted.out.v.meta.v.confidence.some
         /\ chatted.out.v.meta.v.confidence.v < 75
         /\ ~yes
    /\ u.auto_exec

\* the execute requests the toolrunner gets in the course of run_once
RunOnceRequests(u, chatted, no_exec, yes) ==
    IF RunOnceExecutes(u, chatted, no_exec, yes)
    THEN chatted.requests \o <<chatted.out.v.command.v>>
    ELSE chatted.requests

(***************************************************************************)
(* concurrent handle calls on one Pipeline (core/pipeline.py)              *)
(***************************************************************************)
\* the threads that call handle on the shared Pipeline
Callers == {"a", "b"}

\* a handle call: its position, its arguments and collaborator responses,
\* what it has computed, and where the other call stood when it began
Call(pc, t, resp, reply, i, p, ex, exc, started_during) ==
    [pc |-> pc, t |-> t, resp |-> resp, reply |-> reply, intent |-> i,
     plan |-> p, execution |-> ex, raised |-> exc,
     started_during |-> started_during]

\* the attributes of the three services when a stage has returned: resolve,
\* plan and execute assign none of them
ResolverAfterResolve(wl, i) == wl

\* variant in which the Planner drops a rule it has made a valid Plan of
PlannerAfterPlan_RuleConsumed(rl, p) ==
    IF is_valid(p) THEN [rl EXCEPT ![p.intent.name.v] = <<>>] ELSE rl

PlannerAfterPlan(rl, p) == rl

ExecutorAfterExecute(strict, r) == strict

(***************************************************************************)
(* Paths (pathlib)                                                         *)
(***************************************************************************)
\* A name is a sequence of characters and a path a sequence of names; a
\* string that serves as a path is given by its names and by whether it
\* starts with a slash.  A value that is not a string has str = FALSE.
PathValue(abs, segs) == [str |-> TRUE, abs |-> abs, segs |-> segs]
NotAString == [str |-> FALSE, abs |-> FALSE, segs |-> <<>>]
EmptyString == PathValue(FALSE, <<>>)
DotDot == <<".", ".">>

\* Path.resolve() without symbolic links: ".." steps to the parent
RECURSIVE Normalize(_, _)
Normalize(segs, acc) ==
    IF segs = <<>> THEN acc
    ELSE IF segs[1] = DotDot
    THEN Normalize(Tail(segs), IF acc = <<>> THEN acc ELSE SubSeq(acc, 1, Len(acc) - 1))
    ELSE Normalize(Tail(segs), Append(acc, segs[1]))

\* (base / rel).resolve()
Resolved(base, rel) ==
    IF rel.abs THEN Normalize(rel.segs, <<>>) ELSE Normalize(base \o rel.segs, <<>>)

\* Path.relative_to(base) succeeds
IsRelativeTo(p, base) == Len(p) >= Len(base) /\ SubSeq(p, 1, Len(base)) = base

\* str(path) of an absolute path
RECURSIVE PathString(_)
PathString(p) ==
    IF p = <<>> THEN <<>> ELSE <<"/">> \o p[1] \o PathString(Tail(p))

\* str.startswith
StartsWith(a, b) == Len(a) >= Len(b) /\ SubSeq(a, 1, Len(b)) = b

\* x in seq
Contains(seq, x) == \E k \in 1..Len(seq) : seq[k] = x

(***************************************************************************)
(* interaction/resolver: utils/safety.py, utils/fuzzy.py, pipeline.py,     *)
(* main.py                                                                 *)
(***************************************************************************)
\* An utterance after normalize and extract_slots: the key words it
\* contains and the slots found in it.  Scores are hundredths.
sandbox_ok(workspace, rel) ==
    IF ~rel.str THEN FALSE ELSE IsRelativeTo(Resolved(workspace, rel), workspace)

classify_write(command) ==
    command \in {"files.create", "files.append", "system.config_set"}

\* the path relative to the workspace
Relative(workspace, p) == PathValue(FALSE, SubSeq(p, Len(workspace) + 1, Len(p)))

\* try_fuzzy_path; cand is the file _best_candidate picks in the workspace
\* (None when no file name has a positive similarity)
try_fuzzy_path(workspace, files, slots, allow_new, cand) ==
    LET g == slots.path
        direct == Resolved(workspace, g)
        inside == IsRelativeTo(direct, workspace)
    IN  IF g.segs = <<>> /\ ~g.abs THEN slots
        ELSE IF inside /\ (direct \in files \/ allow_new)
        THEN [slots EXCEPT !.path = Relative(workspace, direct)]
        ELSE IF cand.some THEN [slots EXCEPT !.path = Relative(workspace, cand.v)]
        ELSE IF allow_new /\ ~inside
        THEN [slots EXCEPT !.path = PathValue(FALSE, g.segs)]
        ELSE slots

IntentItem(command, keywords, required) ==
    [command |-> command, keywords |-> keywords, required |-> required]

\* f"keywords:{hits}"
KeywordsWhy(hits) == <<"keywords:1", "keywords:2", "keywords:3">>[hits]

RECURSIVE _match_intent(_, _, _, _)
_match_intent(intents, words, k, best) ==
    IF k > Len(intents) THEN best
    ELSE LET hits == Cardinality(intents[k].keywords \cap words)
             score == IF hits > 1 THEN 50 ELSE IF hits > 0 THEN 40 ELSE 0
         IN _match_intent(intents, words, k + 1,
                IF score > best.score
                THEN [command |-> Some(intents[k].command), score |-> score,
                      why |-> <<KeywordsWhy(hits)>>]
                ELSE best)

\* the required slots of the first item of the command
_required_slots_for(intents, command) ==
    IF \E k \in 1..Len(intents) : intents[k].command = command
    THEN intents[CHOOSE k \in 1..Len(intents) :
                    /\ intents[k].command = command
                    /\ \A j \in 1..(k - 1) : intents[j].command # command].required
    ELSE {}

_missing_required_slot(intents, command, slots) ==
    IF ~command.some THEN TRUE
    ELSE \E r \in _required_slots_for(intents, command.v) :
            r \notin DOMAIN slots \/ slots[r] = EmptyString

\* args.get("mask", "*")
MaskOf(args) ==
    IF "mask" \in DOMAIN args THEN args.mask ELSE PathValue(FALSE, <<<<"*">>>>)

ResolveOut(command, args, confidence, explain) ==
    [command |-> command, args |-> args, confidence |-> confidence,
     fallback_used |-> command = "files.list", explain |-> explain,
     write |-> classify_write(command)]

\* variant of _pack without the sandbox test
_pack_NoSandbox(command, slots, confidence, why, workspace) ==
    ResolveOut(command, slots, confidence, why)

_pack(command, slots, confidence, why, workspace) ==
    IF "path" \in DOMAIN slots /\ ~sandbox_ok(workspace, slots.path)
    THEN ResolveOut("files.list", [a \in {"mask"} |-> MaskOf(slots)], 49,
                    Append(why, "sandbox:violation"))
    ELSE ResolveOut(command, slots, confidence, why)

\* the answer of ask_ollama: it raises, returns no dict, or returns a dict
LlmRaises == [kind |-> "raises", command |-> None, args |-> <<>>]
LlmNothing == [kind |-> "none", command |-> None, args |-> <<>>]
LlmAnswer(command, args) == [kind |-> "dict", command |-> command, args |-> args]

\* slots.setdefault(k, v) for every item of args
SetDefaults(slots, args) ==
    [k \in DOMAIN slots \cup DOMAIN args |->
        IF k \in DOMAIN slots THEN slots[k] ELSE args[k]]

Max(a, b) == IF a >= b THEN a ELSE b
Min(a, b) == IF a <= b THEN a ELSE b

\* step 7 of Resolver.resolve: the LLM is asked when the match is ambiguous
AskLlm(r, c, st, llm) ==
    IF llm.kind = "raises" THEN [st EXCEPT !.why = Append(@, "llm:fail")]
    ELSE IF llm.kind = "dict" /\ llm.command.some /\ llm.command.v \in r.whitelist
    THEN [command |-> llm.command,
          slots |-> SetDefaults(st.slots, llm.args),
          score |-> Max(st.score, c.llm_threshold),
          why |-> Append(st.why, "llm:disambiguation")]
    ELSE st

\* Resolver.resolve(trace_id, text, context, config) of pipeline.py: r is the
\* Resolver (intents, whitelist, workspace and its files), c the config of
\* the request, u the utterance, cand and llm the answers of the file search
\* and of the LLM
RulesResolve(r, c, u, cand, llm) ==
    LET m == _match_intent(r.intents, u.words, 1,
                [command |-> None, score |-> 0, why |-> <<>>])
        has_path == "path" \in DOMAIN u.slots
        s4 == IF m.command.some
                 /\ m.command.v \in {"files.create", "files.open", "files.read"}
                 /\ has_path
              THEN [m EXCEPT !.score = @ + 15, !.why = Append(@, "slot:path")]
              ELSE m
        s5 == IF DOMAIN u.slots # {}
              THEN [s4 EXCEPT !.score = @ + 20, !.why = Append(@, "slots:yes")]
              ELSE s4
        allow_new == s5.command.some /\ s5.command.v \in {"files.create", "files.append"}
        s6 == IF has_path
              THEN [command |-> s5.command,
                    slots |-> try_fuzzy_path(r.workspace, r.files, u.slots, allow_new, cand),
                    score |-> s5.score + 15,
                    why |-> Append(s5.why, "fuzzy:path")]
              ELSE [command |-> s5.command, slots |-> u.slots, score |-> s5.score,
                    why |-> s5.why]
        ambiguous == \/ (50 <= s6.score /\ s6.score < c.llm_threshold)
                     \/ _missing_required_slot(r.intents, s6.command, s6.slots)
        asked == c.mode = "hybrid" /\ c.llm_enable /\ ambiguous
        s7 == IF asked THEN AskLlm(r, c, s6, llm) ELSE s6
        packed == IF ~s7.command.some
                  THEN [a \in {"mask"} |-> MaskOf(s7.slots)]
                  ELSE s7.slots
    IN  [asked |-> asked,
         matched |-> m.command,
         packed |-> packed,
         out |-> IF ~s7.command.some
                 THEN _pack("files.list", packed, 49, s7.why, r.workspace)
                 ELSE _pack(s7.command.v, packed, Min(99, s7.score), s7.why,
                            r.workspace)]

\* variant of /resolve that does not test the caller's whitelist
ServiceResolve_NoWhitelist(out, wl) == out

\* the /resolve endpoint of main.py: out is what Resolver.resolve returned,
\* wl the whitelist of the request's constraints
ServiceResolve(out, wl) ==
    IF wl # {} /\ out.command \notin wl
    THEN [out EXCEPT !.command = "files.list",
                     !.args = [a \in {"mask"} |-> MaskOf(out.args)],
                     !.confidence = 49,
                     !.fallback_used = TRUE,
                     !.explain = Append(@, "whitelist:forced_fallback")]
    ELSE out

(***************************************************************************)
(* toolrunner/security.py, toolrunner/tools/files.py                       *)
(***************************************************************************)
\* the absolute path returned, or the error raised
PathReturned(p) == [raised |-> "", value |-> p]
PathRaised(exc) == [raised |-> exc, value |-> <<>>]

\* workspace_path(rel, config): the absolute path of rel, or the error raised
workspace_path(base, rel) ==
    IF rel = EmptyString THEN PathRaised("E_ARG_MISSING:path")
    ELSE LET p == Resolved(base, rel)
         IN  IF ~StartsWith(PathString(p), PathString(base))
             THEN PathRaised("E_PATH_OUTSIDE_WORKSPACE")
             ELSE PathReturned(p)

\* the outcome of a files.* handler: what it returns or raises, the location
\* it read or wrote, and the files that exist and were written afterwards
FilesOutcome(box, command, rel, result, touched, files, written) ==
    [base |-> box.base, files |-> files, written |-> written,
     command |-> command, path |-> rel, result |-> result, touched |-> touched]

Refused(box, command, rel, err) ==
    FilesOutcome(box, command, rel, err, None, box.files, box.written)

cmd_files_read(box, rel) ==
    LET p == workspace_path(box.base, rel)
    IN  IF p.raised # "" THEN Refused(box, "files.read", rel, p.raised)
        ELSE IF p.value \in box.files
        THEN FilesOutcome(box, "files.read", rel, "text", Some(p.value),
                          box.files, box.written)
        ELSE Refused(box, "files.read", rel, "E_NOT_FOUND")

cmd_files_create(box, rel) ==
    LET p == workspace_path(box.base, rel)
    IN  IF p.raised # "" THEN Refused(box, "files.create", rel, p.raised)
        ELSE FilesOutcome(box, "files.create", rel, "OK", Some(p.value),
                          box.files \cup {p.value}, box.written \cup {p.value})

cmd_files_append(box, rel) ==
    LET p == workspace_path(box.base, rel)
    IN  IF p.raised # "" THEN Refused(box, "files.append", rel, p.raised)
        ELSE FilesOutcome(box, "files.append", rel, "OK", Some(p.value),
                          box.files \cup {p.value}, box.written \cup {p.value})

(***************************************************************************)
(* tools_cli/stylist.py                                                    *)
(***************************************************************************)
\* A phrase is a sequence of words; a word in braces is a placeholder.
Variant(phrase, weight) == [text |-> phrase, weight |-> weight]

\* Stylist._defaults
StylistDefaults ==
    [p \in {"{signature}", "{signature_short}", "{broken}"} |->
        CASE p = "{signature}" -> "komandir"
          [] p = "{signature_short}" -> "ser"
          [] OTHER -> ""]

\* Stylist._format: template.format_map(ctx); a placeholder that is not in
\* ctx stays as written (_SafeDict)
_format(template, params) ==
    LET ctx == [p \in DOMAIN StylistDefaults \cup DOMAIN params |->
                    IF p \in DOMAIN params THEN params[p] ELSE StylistDefaults[p]]
        put == [k \in 1..Len(template) |->
                    IF template[k] \in DOMAIN ctx THEN ctx[template[k]] ELSE template[k]]
    IN  SelectSeq(put, LAMBDA w : w # "")

\* _DEFAULT_REPLACEMENTS with _match_case for a word in lower case
Replacement(w) ==
    CASE w \in {"ok", "okej"} -> "prinyato"
      [] w = "ladno" -> "horosho"
      [] OTHER -> w

\* text[0].upper() + text[1:]
Capitalize(w) ==
    CASE w = "prinyato" -> "Prinyato"
      [] w = "horosho" -> "Horosho"
      [] w = "sdelayu" -> "Sdelayu"
      [] w = "gotovo" -> "Gotovo"
      [] w = "status.missing" -> "Status.missing"
      [] OTHER -> w

\* Stylist._apply_filters: an opening word followed by more text is cut,
\* the replacements are applied and the first letter is capitalised
_apply_filters(phrase) ==
    IF phrase = <<>> THEN <<>>
    ELSE LET cut == IF Len(phrase) > 1 /\ phrase[1] \in {"nu", "ladno", "okej", "ok"}
                    THEN Tail(phrase) ELSE phrase
             repl == [k \in 1..Len(cut) |-> Replacement(cut[k])]
         IN  [repl EXCEPT ![1] = Capitalize(@)]

\* Stylist.say
say(phrase, params) ==
    IF phrase = <<>> THEN <<>> ELSE _apply_filters(_format(phrase, params))

\* the last history_size items of the history
Trimmed(history, size) ==
    IF Len(history) > size
    THEN SubSeq(history, Len(history) - size + 1, Len(history))
    ELSE history

\* the variants random.choices can return: those of the pool with a
\* positive weight
Pool(variants, history) ==
    LET fresh == SelectSeq(variants, LAMBDA v : ~Contains(history, v.text))
    IN  IF fresh = <<>> THEN variants ELSE fresh

\* Stylist.say_key with the variant chosen by random.choices
say_key(st, key, params, chosen) ==
    LET variants == IF key \in DOMAIN st.templates THEN st.templates[key] ELSE <<>>
    IN  IF variants = <<>>
        THEN [st EXCEPT !.key = key, !.chosen = None, !.said = say(<<key>>, params)]
        ELSE LET history == st.history[key]
                 fresh == SelectSeq(variants, LAMBDA v : ~Contains(history, v.text))
                 kept == IF fresh = <<>> THEN <<>> ELSE history
             IN  [st EXCEPT !.key = key,
                            !.chosen = Some(chosen.text),
                            !.said = _apply_filters(_format(chosen.text, params)),
                            !.cleared = (fresh = <<>>),
                            !.history[key] =
                                Trimmed(Append(kept, chosen.text), st.history_size),
                            !.previous[key] = st.latest[key],
                            !.latest[key] = Some(chosen.text)]

(***************************************************************************)
(* management/constants.py, management/service.py                          *)
(***************************************************************************)
\* Times are minutes; a datetime is a number of minutes, a timedelta too.
PriorityRule(shift, delete, offsets, auto_drop, re_evaluate, escalate) ==
    [confirmation_level_shift |-> shift, confirmation_level_delete |-> delete,
     reminder_offsets |-> offsets, auto_drop_after |-> auto_drop,
     re_evaluate_on_shift |-> re_evaluate, escalate_logs_on_delete |-> escalate]

DEFAULT_REMINDER_OFFSETS == <<-30, 0>>

PRIORITY_RULES ==
    [p \in {"P1", "P2", "P3", "P4"} |->
        CASE p = "P1" -> PriorityRule(0, 0, <<-240>> \o DEFAULT_REMINDER_OFFSETS,
                                      Some(7 * 24 * 60), FALSE, FALSE)
          [] p = "P2" -> PriorityRule(0, 0, <<-120>> \o DEFAULT_REMINDER_OFFSETS,
                                      None, FALSE, FALSE)
          [] p = "P3" -> PriorityRule(1, 1, <<-150>> \o DEFAULT_REMINDER_OFFSETS,
                                      None, TRUE, FALSE)
          [] p = "P4" -> PriorityRule(1, 2, <<-120, -10>> \o DEFAULT_REMINDER_OFFSETS,
                                      None, FALSE, TRUE)]

\* sorted(set): the members of S in ascending order
RECURSIVE Sorted(_)
Sorted(S) ==
    IF S = {} THEN <<>>
    ELSE LET least == CHOOSE x \in S : \A y \in S : x <= y
         IN  <<least>> \o Sorted(S \ {least})

Range(seq) == { seq[k] : k \in 1..Len(seq) }

Event(task_id, event_type, when, offset, priority, now) ==
    [task_id |-> task_id, event_type |-> event_type, scheduled_for |-> when,
     status |-> "pending", offset_minutes |-> offset, priority |-> priority,
     created_at |-> now]

\* the reminders appended for the offsets, skipping those more than a day old
RECURSIVE ReminderEvents(_, _, _, _)
ReminderEvents(offsets, id, task, now) ==
    IF offsets = <<>> THEN <<>>
    ELSE LET scheduled_for == task.start_time.v + offsets[1]
             rest == ReminderEvents(Tail(offsets), id, task, now)
         IN  IF scheduled_for < now - 24 * 60 THEN rest
             ELSE <<Event(id, "reminder", scheduled_for, Some(offsets[1]),
                          task.priority, now)>> \o rest

\* variant of _schedule_task_reminders that keeps the reminders already stored
_schedule_task_reminders_Accumulating(events, id, task, now) ==
    IF ~task.start_time.some THEN events
    ELSE events \o ReminderEvents(Sorted(Range(PRIORITY_RULES[task.priority].reminder_offsets)),
                                  id, task, now)

\* ManagementService._schedule_task_reminders: the events table afterwards
_schedule_task_reminders(events, id, task, now) ==
    LET kept == SelectSeq(events,
                    LAMBDA e : ~(e.task_id = id /\ e.event_type = "reminder"))
    IN  IF ~task.start_time.some THEN kept
        ELSE kept \o ReminderEvents(Sorted(Range(PRIORITY_RULES[task.priority].reminder_offsets)),
                                    id, task, now)

\* ManagementService._schedule_auto_drop: the events table and the task row
\* afterwards
_schedule_auto_drop(events, id, task, now) ==
    LET kept == SelectSeq(events,
                    LAMBDA e : ~(e.task_id = id /\ e.event_type = "auto_drop"))
        rule == PRIORITY_RULES[task.priority]
    IN  IF ~rule.auto_drop_after.some THEN [events |-> kept, task |-> task]
        ELSE LET drop_time == task.created_at + rule.auto_drop_after.v
             IN  [events |-> kept \o <<Event(id, "auto_drop", drop_time, None,
                                              task.priority, now)>>,
                  task |-> [task EXCEPT !.auto_drop_at = Some(drop_time)]]

\* ActionResult and the record of a call: what was asked, what was answered
\* and the actions logged
ActionResult(success, confirm, required_level) ==
    [success |-> success, requires_confirmation |-> confirm,
     required_level |-> required_level]

ManagementCall(name, id, lvl, result, logged) ==
    [op |-> name, task_id |-> id, level |-> lvl, result |-> result,
     logged |-> logged]

\* ManagementService.create_task at time now
create_task(m, priority, start_time, now) ==
    LET rule == PRIORITY_RULES[priority]
        id == Len(m.tasks) + 1
        row == [priority |-> priority, status |-> "planned",
                start_time |-> start_time, end_time |-> None,
                auto_drop_at |-> IF rule.auto_drop_after.some
                                 THEN Some(now + rule.auto_drop_after.v) ELSE None,
                created_at |-> now, updated_at |-> now, cancelled_at |-> None]
        reminders == _schedule_task_reminders(m.events, id, row, now)
        dropped == _schedule_auto_drop(reminders, id, row, now)
    IN  [now |-> now,
         tasks |-> Append(m.tasks, dropped.task),
         events |-> dropped.events,
         last |-> ManagementCall("create_task", id, 0, ActionResult(TRUE, FALSE, 0),
                                 <<"task_created">>)]

\* variant of shift_task without the confirmation gate
shift_task_NoGate(m, id, new_start, new_end, confirmation_level, now) ==
    LET task == m.tasks[id]
        rule == PRIORITY_RULES[task.priority]
        shifted == [task EXCEPT
                        !.start_time = IF new_start.some THEN new_start ELSE @,
                        !.end_time = IF new_end.some THEN new_end ELSE @,
                        !.updated_at = now]
    IN  IF new_start.some \/ new_end.some
        THEN [now |-> now,
              tasks |-> [m.tasks EXCEPT ![id] = shifted],
              events |-> _schedule_task_reminders(m.events, id, shifted, now),
              last |-> ManagementCall("shift_task", id, confirmation_level,
                          ActionResult(TRUE, FALSE, 0),
                          <<"task_shifted">> \o
                          (IF rule.re_evaluate_on_shift
                           THEN <<"task_re_evaluation_prompt">> ELSE <<>>))]
        ELSE [m EXCEPT !.now = now,
                       !.last = ManagementCall("shift_task", id, confirmation_level,
                                    ActionResult(TRUE, FALSE, 0), <<>>)]

\* ManagementService.shift_task; None stands for an argument left out
shift_task(m, id, new_start, new_end, confirmation_level, now) ==
    LET task == m.tasks[id]
        rule == PRIORITY_RULES[task.priority]
        required == rule.confirmation_level_shift
        shifted == [task EXCEPT
                        !.start_time = IF new_start.some THEN new_start ELSE @,
                        !.end_time = IF new_end.some THEN new_end ELSE @,
                        !.updated_at = now]
    IN  IF confirmation_level < required
        THEN [m EXCEPT !.now = now,
                       !.last = ManagementCall("shift_task", id, confirmation_level,
                                    ActionResult(FALSE, TRUE, required),
                                    <<"shift_confirmation_required">>)]
        ELSE IF new_start.some \/ new_end.some
        THEN [now |-> now,
              tasks |-> [m.tasks EXCEPT ![id] = shifted],
              events |-> _schedule_task_reminders(m.events, id, shifted, now),
              last |-> ManagementCall("shift_task", id, confirmation_level,
                          ActionResult(TRUE, FALSE, 0),
                          <<"task_shifted">> \o
                          (IF rule.re_evaluate_on_shift
                           THEN <<"task_re_evaluation_prompt">> ELSE <<>>))]
        ELSE [m EXCEPT !.now = now,
                       !.last = ManagementCall("shift_task", id, confirmation_level,
                                    ActionResult(TRUE, FALSE, 0), <<>>)]

\* ManagementService.cancel_task
cancel_task(m, id, confirmation_level, now) ==
    LET task == m.tasks[id]
        rule == PRIORITY_RULES[task.priority]
        required == rule.confirmation_level_delete
    IN  IF confirmation_level < required
        THEN [m EXCEPT !.now = now,
                       !.last = ManagementCall("cancel_task", id, confirmation_level,
                                    ActionResult(FALSE, TRUE, required),
                                    <<"cancel_confirmation_required">>)]
        ELSE [m EXCEPT !.now = now,
                       !.tasks[id] = [task EXCEPT !.status = "cancelled",
                                                  !.cancelled_at = Some(now),
                                                  !.updated_at = now],
                       !.last = ManagementCall("cancel_task", id, confirmation_level,
                                    ActionResult(TRUE, FALSE, 0),
                                    <<"task_cancelled">> \o
                                    (IF rule.escalate_logs_on_delete
                                     THEN <<"critical_task_cancelled">> ELSE <<>>))]

\* ManagementService.adjust_priority
adjust_priority(m, id, new_priority, now) ==
    LET updated == [m.tasks[id] EXCEPT !.priority = new_priority,
                                       !.updated_at = now,
                                       !.auto_drop_at = None]
        dropped == _schedule_auto_drop(m.events, id, updated, now)
        reminders == _schedule_task_reminders(dropped.events, id, updated, now)
    IN  [now |-> now,
         tasks |-> [m.tasks EXCEPT ![id] = dropped.task],
         events |-> reminders,
         last |-> ManagementCall("adjust_priority", id, 0,
                                 ActionResult(TRUE, FALSE, 0), <<"priority_adjusted">>)]

(***************************************************************************)
(* Inputs                                                                  *)
(***************************************************************************)
MaxSteps == 2       \* longest plan handed to Executor.execute directly
MaxLevel == 1       \* highest confirmation level of a policy or a caller
MaxPlanCalls == 3   \* plan calls made on one Planner

\* utterances: every pattern of both rule tables, and some that match none
Texts ==
    { <<W("sozdaj"), W("fajl"), N("note.txt"), W("s"), W("soderzhimym"), W("privet")>>,
      <<W("sozdaj"), W("fajl"), Q("note.txt"), W("s"), W("soderzhimym"), W("privet")>>,
      <<W("sozdat"), W("fajl"), N("note.txt")>>,
      <<W("prochitaj"), W("fajl"), Q("notes.txt")>>,
      <<W("prochitaj"), Q("notes.txt")>>,
      <<W("fajly"), Q("*.txt")>>,
      <<W("pokazhi")>>,
      <<W("pokazhi"), Q("a.txt")>>,
      <<W("otkroj"), W("fajl"), N("a.txt")>>,
      <<W("otkroj"), Q("a.txt")>>,
      <<W("dopishi"), W("v"), W("fajl"), N("story.txt"), N(":"), W("final")>>,
      <<W("dopishi"), W("v"), Q("story.txt"), W("tekst"), W("final")>>,
      <<W("pomosch")>>,
      <<W("konfig"), W("pokazat")>>,
      <<W("konfig"), W("ustanovit"), W("theme"), W("dark")>>,
      <<W("yarlyk"), Q("a.txt")>>,
      <<W("menedzhment"), W("create"), KV("title", "x"), KV("due", "")>>,
      <<W("upravlenie"), W("list")>>,
      <<W("menedzhment"), W("create"), W("oops")>>,
      <<W("privet")>>,
      <<W("chto"), W("ty"), W("umeesh")>>,
      <<W("mne"), W("nuzhno"), W("pokazat"), W("fajly"), W("proekta")>>,
      <<>> }

TestWhitelist ==
    {"files.list", "files.read", "files.create", "files.append", "system.help",
     "system.config_set"}

ResolverConfig(wl, url, mode, thr, use_legacy) ==
    [whitelist |-> wl, remote_url |-> url, mode |-> mode,
     low_conf_threshold |-> thr, use_legacy_when_low_conf |-> use_legacy]

ResolverConfigs ==
    { ResolverConfig(wl, url, mode, thr, ul) :
        wl \in {{}, TestWhitelist, {"files.list", "notes.search"}},
        url \in {"", "http://resolver.local"},
        mode \in {"quick", "hybrid", "remote"},
        thr \in {50, 85},
        ul \in BOOLEAN }

HttpFailure(kind) == [kind |-> kind, data |-> Absent]
Json(data) == [kind |-> "json", data |-> data]
NoResponse == [kind |-> "none", data |-> Absent]

ResolveResponse(command, args, confidence, fallback_used, explain, resolver_rule) ==
    Dict([command |-> command, args |-> args, confidence |-> confidence,
          fallback_used |-> fallback_used, explain |-> explain,
          resolver_rule |-> resolver_rule])

RemoteCommands ==
    {Absent, Str(""), Str("files.list"), Str("files.open"), Str("system.help"),
     Str("notes.search"), Str("rm.all"), Num(5), List(<<"files.list">>)}

RemoteConfidences ==
    {Absent, Num(30), Num(50), Num(91), NumStr(30), BadStr, Bool(FALSE), List(<<>>)}

RemoteOutcomes ==
    { HttpFailure(k) : k \in HttpErrors }
    \cup { Json(List(<<>>)), Json(Absent), Json(Str("ok")) }
    \cup { Json(ResolveResponse(c, Dict([mask |-> <<N("*")>>]), conf, Bool(fb),
                List(<<"remote:match">>), Str("remote"))) :
            c \in RemoteCommands, conf \in RemoteConfidences, fb \in BOOLEAN }
    \cup { Json(ResolveResponse(Str("files.list"), a, Num(91), Absent, e, Absent)) :
            a \in {Absent, List(<<"*">>)}, e \in {Absent, Num(5), List(<<>>)} }

RawStep(tool, id, use_intent_args, args, on_error) ==
    [tool |-> tool, id |-> id, use_intent_args |-> use_intent_args,
     args |-> args, on_error |-> on_error]

Rule(rule_id, acl, lvl, steps) ==
    [rule_id |-> rule_id, acl |-> acl, confirmation_level |-> lvl, steps |-> steps]

OneStep(rule_id, acl, lvl, tool) ==
    Rule(Some(rule_id), acl, lvl, <<RawStep(tool, "", TRUE, <<>>, "")>>)

\* rule tables (planner/rules.yaml is configuration, not code): one rule per
\* command, and a table with the irregular shapes a rule can have
RuleTables ==
    { ("files.list" :> OneStep("fs_list", {"fs.read"}, 0, "files.list")) @@
      ("files.read" :> OneStep("fs_read", {"fs.read"}, 0, "files.read")) @@
      ("files.create" :> OneStep("fs_create", {"fs.write"}, 1, "files.create")) @@
      ("files.append" :> OneStep("fs_append", {"fs.write"}, 1, "files.append")) @@
      ("files.open" :> OneStep("fs_open", {"fs.desktop"}, 0, "files.open")) @@
      ("system.help" :> OneStep("sys_help", {"system"}, 0, "system.help")) @@
      ("system.config_set" :> OneStep("sys_set", {"system"}, MaxLevel, "system.config_set")) @@
      ("management.execute" :> OneStep("mgmt", {"management"}, 0, "management.execute")),
      ("files.list" :> Rule(None, {"fs.read"}, 0, <<>>)) @@
      ("files.read" :> Rule(None, {"fs.read"}, 0,
            <<RawStep("files.read", "", TRUE, <<>>, "continue"),
              RawStep("", "skipped", FALSE, <<>>, ""),
              RawStep("files.create", "step1", FALSE, [path |-> <<N("log.txt")>>], "")>>)) @@
      ("files.create" :> Rule(Some("fs_create"), {}, MaxLevel,
            <<RawStep("files.create", "write", TRUE, <<>>, ""),
              RawStep("system.help", "", FALSE, <<>>, "")>>)) @@
      ("files.open" :> OneStep("fs_open", {"fs.read"}, 0, "files.open")) @@
      ("system.help" :> EmptyRule) @@
      ("management.execute" :> OneStep("mgmt", {"fs.read"}, MaxLevel, "management.execute")) }

ExecTools == {"files.read", "files.create", "management.execute"}

DirectSteps(n) ==
    { [k \in 1..n |-> PlanStep(StepName(k), tl[k], <<>>, oe[k])] :
        tl \in [1..n -> ExecTools], oe \in [1..n -> {"", "continue"}] }

\* plans a caller builds by hand, as the executor tests do
DirectPlans ==
    { Plan(command_intent("files.read", <<>>, None, None, None, FALSE, <<>>),
           st, PlanPolicy(tags, lvl), <<>>, err) :
        st \in UNION {DirectSteps(n) : n \in 0..MaxSteps},
        tags \in {{}, {"fs.read"}, {"fs.read", "fs.write"}},
        lvl \in 0..MaxLevel,
        err \in {None, Some("E_NO_RULE")} }

ReplySet(k) ==
    { TransportResponse(TRUE, Some(k), None),
      TransportResponse(FALSE, None, Some("E_RUNTIME:boom")),
      TransportResponse(FALSE, Some(0), Some("E_PARTIAL")),
      TransportResponse(FALSE, None, None) }

\* one transport reply per step
Replies(n) == { r \in [1..n -> UNION {ReplySet(k) : k \in 1..n}] :
                    \A k \in 1..n : r[k] \in ReplySet(k) }

\* the configurations and remote answers the pipeline is exercised with
PipelineConfigs ==
    { ResolverConfig(wl, "http://resolver.local", "hybrid", 50, TRUE) :
        wl \in {{}, TestWhitelist} }

PipelineOutcomes ==
    { HttpFailure("timeout"), Json(List(<<>>)) }
    \cup { Json(ResolveResponse(Str(c), a, conf, Bool(FALSE),
                List(<<"remote:match">>), Str("remote"))) :
            c \in {"files.list", "files.open", "rm.all"},
            a \in {Dict([mask |-> <<N("*")>>]), List(<<"*">>)},
            conf \in {Num(30), Num(91)} }

\* the Intents and request contexts Planner.plan is called with
PlannerNames ==
    {"files.list", "files.read", "files.create", "system.help", "unknown.cmd", ""}

PlannerArgs == {<<>>, [path |-> <<N("a.txt")>>], NotAMapping}

PlannerIntents ==
    { chat_intent(<<W("privet")>>, Some("chat"), <<>>),
      [command_intent("files.list", <<>>, None, None, None, FALSE, <<>>)
            EXCEPT !.name = None] }
    \cup { command_intent(n, a, None, None, None, FALSE, <<>>) :
                n \in PlannerNames, a \in PlannerArgs }

PlannerContexts == {<<>>, [user |-> "u1"]}

HttpBodies ==
    { NotJson(""), NotJson("Bad Gateway"), Absent, List(<<>>), Str("ok") }
    \cup { ExecuteBody(ok, result, error, detail) :
                ok \in {Absent, Bool(TRUE), Bool(FALSE)},
                result \in {Absent, Str("data")},
                error \in {Absent, Str(""), Str("E_FAIL")},
                detail \in {Absent, Str(""), Str("E_ARG_MISSING:path")} }

HttpOutcomes ==
    { HttpRaised(exc) : exc \in {"timeout", "connect_error"} }
    \cup { HttpReply(status, body) : status \in {200, 404, 500}, body \in HttpBodies }

\* what a registered handler does with the arguments
HandlerOutcomes ==
    { HandlerReturned(v) : v \in {Absent, Str("data"), Bool(TRUE)} }
    \cup { HandlerRaised(exc, msg) :
                exc \in {"ValueError", "OSError"},
                msg \in {"", "boom", "E_", "E_ARG_MISSING:path",
                         "E_PATH_OUTSIDE_WORKSPACE"} }

TransportTools == ExecTools \cup {"files.list", "unknown.cmd"}

\* controller: proxy_commands and features.planner.enabled; CLI: ui.auto_exec
\* and ui.confirm_on_low_conf
ControllerConfig(proxy_commands, planner_enabled) ==
    [proxy_commands |-> proxy_commands, planner_enabled |-> planner_enabled]
DefaultController == ControllerConfig(FALSE, TRUE)
UiConfig(auto_exec, confirm_on_low_conf) ==
    [auto_exec |-> auto_exec, confirm_on_low_conf |-> confirm_on_low_conf]
DefaultUi == UiConfig(TRUE, FALSE)

\* commands and arguments _proxy_toolrunner is called with
ProxyCommands == TransportTools \cup {"system.help"}
ProxyArguments == {<<>>, [path |-> <<Q("a.txt")>>, text |-> <<W("final")>>]}

\* ResolverConfig built by _build_resolver_config from the default settings
ControllerResolverConfig ==
    ResolverConfig(_RESOLVER_TO_TOOL, "http://127.0.0.1:8020", "hybrid", 50, TRUE)

\* the utterances, resolver answers and handler behaviours /chat is
\* exercised with
ChatTexts ==
    { <<W("sozdaj"), W("fajl"), N("note.txt"), W("s"), W("soderzhimym"), W("privet")>>,
      <<W("dopishi"), W("v"), W("fajl"), N("story.txt"), N(":"), W("final")>>,
      <<W("otkroj"), W("fajl"), N("a.txt")>>,
      <<W("fajly"), Q("*.txt")>>,
      <<W("yarlyk"), Q("a.txt")>>,
      <<W("pomosch")>>,
      <<W("menedzhment"), W("create"), KV("title", "x"), KV("due", "")>>,
      <<W("privet")>> }

ChatRemote ==
    { HttpFailure("timeout"), Json(List(<<>>)),
      Json(ResolveResponse(Str("files.open"), Dict([path |-> <<N("a.txt")>>]), Num(91),
            Bool(FALSE), List(<<"remote:match">>), Str("remote"))),
      Json(ResolveResponse(Str("rm.all"), Absent, Num(30), Bool(FALSE),
            List(<<"remote:match">>), Str("remote"))) }

\* the longest plan a rule table yields
RuleSteps == 2

ChatHandlerOutcomes ==
    { HandlerReturned(Str("data")), HandlerRaised("ValueError", "E_ARG_MISSING:path") }

\* one handler behaviour per step of a plan
StepOutcomes == [1..RuleSteps -> ChatHandlerOutcomes]

\* the arguments and collaborator responses of the concurrent calls
ConcurrentTexts ==
    { <<W("sozdaj"), W("fajl"), N("note.txt"), W("s"), W("soderzhimym"), W("privet")>>,
      <<W("prochitaj"), W("fajl"), Q("notes.txt")>>,
      <<W("pomosch")>>,
      <<W("privet")>> }

ConcurrentRemote ==
    { HttpFailure("timeout"),
      Json(ResolveResponse(Str("files.open"), Dict([mask |-> <<N("*")>>]), Num(91),
            Bool(FALSE), List(<<"remote:match">>), Str("remote"))) }

ConcurrentReplies ==
    { r \in Replies(RuleSteps) :
        \A k \in 1..RuleSteps : /\ r[k].ok = r[1].ok
                                /\ r[k].result.some = r[k].ok
                                /\ r[k].error.some # r[k].ok }

\* no handle call in progress
IdleCall == Call("idle", <<>>, NoResponse, <<>>, NoIntent, None, None, "", "idle")

\* management utterances: a key word, an action and up to MaxExtra trailing
\* tokens
MaxExtra == 2

ExtraTokens ==
    { KV("title", "x"), KV("due", ""), KV("action", "drop"), KV("_extra", "1"),
      KV("", "x"), W("oops") }

ManagementTexts ==
    { <<W(kw), W(action)>> \o extra :
        kw \in {"menedzhment", "upravlenie"}, action \in {"create", "list"},
        extra \in UNION { [1..n -> ExtraTokens] : n \in 0..MaxExtra } }

\* the body of the answer to ResolverAdapter's post
AdapterResponse(command, args, confidence, error) ==
    Dict([command |-> command, args |-> args, confidence |-> confidence,
          error |-> error])

AdapterOutcomes ==
    { HttpFailure("timeout"), Json(List(<<"x">>)),
      Json(AdapterResponse(Str("files.read"), Dict([path |-> <<N("a.txt")>>]),
                           Num(91), Absent)),
      Json(AdapterResponse(Str("rm.all"), Absent, Num(91), Absent)) }

DefaultConfig == ResolverConfig({}, "", "hybrid", 50, TRUE)
NoRules == <<>>

\* the workspace of the disambiguation service and the paths uttered
Home == <<"h">>
Ws == <<"w", "s">>
WsEvil == <<"w", "s", "_">>
Workspace == <<Home, Ws>>
FileA == <<"a">>
FileB == <<"b">>

UtteredPaths ==
    { PathValue(FALSE, <<FileA>>), PathValue(FALSE, <<FileB>>),
      PathValue(FALSE, <<DotDot, FileB>>),
      PathValue(FALSE, <<DotDot, WsEvil, FileB>>),
      PathValue(TRUE, <<FileB>>) }

ServiceIntents ==
    <<IntentItem("files.read", {"prochitaj", "vyvedi"}, {"path"}),
      IntentItem("files.create", {"sozdaj", "fajl"}, {"path"}),
      IntentItem("files.list", {"spisok", "fajly"}, {})>>

ServiceResolver ==
    [intents |-> ServiceIntents,
     whitelist |-> {"files.read", "files.create", "files.list"},
     workspace |-> Workspace,
     files |-> {Workspace \o <<FileA>>}]

ServiceWords == {{}, {"prochitaj"}, {"sozdaj", "fajl"}, {"spisok"}}

ServiceSlots ==
    {<<>>, [mask |-> PathValue(FALSE, <<<<"*", ".", "p", "y">>>>)]}
    \cup { [path |-> p] : p \in UtteredPaths }

Utterances == { [words |-> w, slots |-> sl] : w \in ServiceWords, sl \in ServiceSlots }

ServiceConfig(mode, llm_enable) ==
    [mode |-> mode, llm_enable |-> llm_enable, llm_threshold |-> 75]

ServiceConfigs ==
    { ServiceConfig("hybrid", TRUE), ServiceConfig("hybrid", FALSE),
      ServiceConfig("rule-only", TRUE) }

LlmAnswers ==
    { LlmRaises, LlmNothing, LlmAnswer(Some("rm.all"), <<>>),
      LlmAnswer(Some("files.read"), [path |-> PathValue(FALSE, <<DotDot, FileB>>)]),
      LlmAnswer(Some("files.read"), [path |-> NotAString]) }

Candidates == {None, Some(Workspace \o <<FileA>>)}

RequestWhitelists == {{}, {"files.list"}, {"files.read", "files.create"}}

\* the path arguments sent to the toolrunner
ToolrunnerPaths == UtteredPaths \cup {EmptyString}

\* the files on disk before the toolrunner's first call
InitialFiles == {Workspace \o <<FileA>>, <<Home, WsEvil, FileB>>}

\* the largest history_size given to the Stylist
MaxHistory == 3

PhraseA == <<"ok">>
PhraseB == <<"nu", "sdelayu">>
PhraseC == <<"gotovo", "{signature}">>
PhraseD == <<"ladno">>

\* templates after _flatten_templates
StylistTemplates ==
    { [status |-> <<Variant(PhraseA, 1), Variant(PhraseB, 1)>>,
       health |-> <<Variant(PhraseD, 1)>>],
      [status |-> <<Variant(PhraseA, 1), Variant(PhraseB, 2), Variant(PhraseC, 1)>>,
       health |-> <<Variant(PhraseD, 1)>>] }

StylistKeys == {"status", "health", "status.missing"}

StylistParams == {<<>>, [p \in {"{signature}"} |-> "ser"]}

\* the number of tasks created in one ManagementService
MaxTasks == 1

\* the times at which calls are made, and the times given as start and end
Clock == {0, 90}
StartTimes == {None, Some(300), Some(-1300)}
EndTimes == {None, Some(600)}
Priorities == {"P1", "P2", "P3", "P4"}
ConfirmationLevels == 0..2

(***************************************************************************)
(* State machine                                                           *)
(***************************************************************************)
IdleCore ==
    /\ op = "idle"
    /\ text = <<>>
    /\ level = 0
    /\ response = NoResponse
    /\ intent = NoIntent
    /\ raised = ""
    /\ remote_calls = 0
    /\ legacy_calls = 0
    /\ plan = None
    /\ replies = <<>>
    /\ execution = None
    /\ dispatched = <<>>
    /\ context = <<>>
    /\ first_plan = None
    /\ transport_response = None
    /\ collaborator = NoCollaborator
    /\ requests = <<>>
    /\ handler_calls = <<>>
    /\ chat_out = None
    /\ stages = <<>>
    /\ calls = [c \in Callers |-> IdleCall]

\* the components outside the pipeline are not in use
Idle ==
    /\ IdleCore
    /\ svc = None
    /\ sandbox = None
    /\ stylist = None
    /\ mgmt = None

\* ResolverService(config=c)
InitResolver ==
    /\ cfg \in ResolverConfigs
    /\ whitelist = InitWhitelist(cfg)
    /\ rules = NoRules
    /\ strict_acl = TRUE
    /\ controller = DefaultController
    /\ ui = DefaultUi
    /\ Idle

\* Executor(transport, strict_acl=b)
InitExecutor ==
    /\ cfg = DefaultConfig
    /\ whitelist = InitWhitelist(cfg)
    /\ rules = NoRules
    /\ strict_acl \in BOOLEAN
    /\ controller = DefaultController
    /\ ui = DefaultUi
    /\ Idle

\* Pipeline(ResolverService(config=c), Planner(rules_path), Executor(..))
InitPipeline ==
    /\ cfg \in PipelineConfigs
    /\ whitelist = InitWhitelist(cfg)
    /\ rules \in RuleTables
    /\ strict_acl \in BOOLEAN
    /\ controller = DefaultController
    /\ ui = DefaultUi
    /\ Idle

\* Planner(rules_path)
InitPlanner ==
    /\ cfg = DefaultConfig
    /\ whitelist = InitWhitelist(cfg)
    /\ rules \in RuleTables
    /\ strict_acl = TRUE
    /\ controller = DefaultController
    /\ ui = DefaultUi
    /\ Idle

\* HttpToolTransport(base_url), LocalToolTransport(config), the controller's
\* proxy
InitTransport ==
    /\ cfg = DefaultConfig
    /\ whitelist = InitWhitelist(cfg)
    /\ rules = NoRules
    /\ strict_acl = TRUE
    /\ controller \in {ControllerConfig(b, TRUE) : b \in BOOLEAN}
    /\ ui = DefaultUi
    /\ Idle

\* the controller and the CLI as their configuration files set them up
InitController ==
    /\ cfg = ControllerResolverConfig
    /\ whitelist = InitWhitelist(cfg)
    /\ rules \in RuleTables
    /\ strict_acl = TRUE
    /\ controller \in {ControllerConfig(p, e) : p \in BOOLEAN, e \in BOOLEAN}
    /\ ui \in {UiConfig(a, c) : a \in BOOLEAN, c \in BOOLEAN}
    /\ Idle

\* ResolverService.resolve(text)
Resolve(t, resp) ==
    /\ op = "idle"
    /\ \E r \in {resolve(cfg, whitelist, t, resp)} :
        /\ op' = "resolve"
        /\ text' = t
        /\ response' = IF r.remote_calls > 0 THEN resp ELSE NoResponse
        /\ intent' = r.intent
        /\ raised' = r.raised
        /\ remote_calls' = r.remote_calls
        /\ legacy_calls' = r.legacy_calls
        /\ UNCHANGED <<svc, sandbox, stylist, mgmt, calls, controller, ui, stages, requests, handler_calls, chat_out,
                       cfg, whitelist, rules,
                       strict_acl, level, plan, replies,
                       execution, dispatched, context, first_plan,
                       transport_response, collaborator>>

\* Executor.execute(plan) by a caller that holds confirmation level lvl; the
\* method has no parameter for it
ExecutorExecute(p, reply, lvl) ==
    /\ op = "idle"
    /\ \E e \in {Execute(p, strict_acl, reply)} :
        /\ op' = "execute"
        /\ plan' = Some(p)
        /\ level' = lvl
        /\ replies' = reply
        /\ execution' = Some(e.result)
        /\ dispatched' = e.dispatched
        /\ UNCHANGED <<svc, sandbox, stylist, mgmt, calls, controller, ui, stages, requests, handler_calls, chat_out,
                       cfg, whitelist, rules,
                       strict_acl, text, response, intent,
                       raised, remote_calls, legacy_calls, context, first_plan,
                       transport_response, collaborator>>

\* Pipeline.handle(text) by a caller that holds confirmation level lvl
Handle(t, resp, reply, lvl) ==
    /\ op = "idle"
    /\ \E h \in {PipelineHandle(cfg, whitelist, rules, strict_acl, t, resp, reply)} :
        /\ op' = "handle"
        /\ text' = t
        /\ level' = lvl
        /\ response' = IF h.resolved.remote_calls > 0 THEN resp ELSE NoResponse
        /\ intent' = h.resolved.intent
        /\ raised' = h.raised
        /\ remote_calls' = h.resolved.remote_calls
        /\ legacy_calls' = h.resolved.legacy_calls
        /\ plan' = h.plan
        /\ replies' = IF h.execution.some THEN reply ELSE <<>>
        /\ execution' = h.execution
        /\ dispatched' = h.dispatched
        /\ stages' = h.stages
        /\ UNCHANGED <<svc, sandbox, stylist, mgmt, calls, controller, ui, requests, handler_calls, chat_out,
                       cfg, whitelist, rules,
                       strict_acl, context, first_plan,
                       transport_response, collaborator>>

\* Planner.plan(intent, context=ctx); first_plan keeps the first call made on
\* this Planner
PlannerPlanCall(i, ctx) ==
    /\ op = "idle"
    /\ first_plan.some => first_plan.v.calls < MaxPlanCalls
    /\ \E pl \in {PlannerPlan(rules, i, ctx)} :
        /\ op' = "plan"
        /\ intent' = i
        /\ context' = ctx
        /\ raised' = pl.raised
        /\ plan' = IF pl.raised = "" THEN Some(pl.plan) ELSE None
        /\ first_plan' = IF first_plan.some
                         THEN [first_plan EXCEPT !.v.calls = @ + 1]
                         ELSE Some([intent |-> i, context |-> ctx,
                                    raised |-> pl.raised, plan |-> pl.plan,
                                    calls |-> 1])
        /\ UNCHANGED <<svc, sandbox, stylist, mgmt, calls, controller, ui, stages, requests, handler_calls, chat_out,
                       cfg, whitelist, rules,
                       strict_acl, text, level, response,
                       remote_calls, legacy_calls, replies, execution, dispatched,
                       transport_response, collaborator>>

\* HttpToolTransport.execute(tool, args) while the server behaves as reply
HttpExecute(tool, reply) ==
    /\ op = "idle"
    /\ \E r \in {HttpToolTransportExecute(reply)} :
        /\ op' = "http_execute"
        /\ dispatched' = <<tool>>
        /\ collaborator' = reply
        /\ raised' = r.raised
        /\ transport_response' = r.response
        /\ UNCHANGED <<svc, sandbox, stylist, mgmt, calls, controller, ui, stages, requests, handler_calls, chat_out,
                       cfg, whitelist, rules,
                       strict_acl, text, level, response,
                       intent, remote_calls, legacy_calls, plan, replies, execution,
                       context, first_plan>>

\* LocalToolTransport.execute(tool, args) while the handler behaves as outcome
LocalExecute(tool, outcome) ==
    /\ op = "idle"
    /\ \E r \in {LocalToolTransportExecute(tool, outcome)} :
        /\ op' = "local_execute"
        /\ dispatched' = <<tool>>
        /\ collaborator' = IF tool \in REGISTRY THEN outcome ELSE NoHandler
        /\ handler_calls' = IF tool \in REGISTRY THEN <<tool>> ELSE <<>>
        /\ raised' = r.raised
        /\ transport_response' = r.response
        /\ UNCHANGED <<svc, sandbox, stylist, mgmt, calls, controller, ui, stages, requests, chat_out, cfg, whitelist, rules,
                       strict_acl, text, level, response,
                       intent, remote_calls, legacy_calls, plan, replies, execution,
                       context, first_plan>>

\* HttpToolTransport.execute(tool, args) against the toolrunner, whose handler
\* behaves as outcome
HttpToolrunnerExecute(tool, outcome, authorized) ==
    /\ op = "idle"
    /\ \E served \in {ToolrunnerExecute(tool, outcome, authorized)} :
       \E r \in {HttpToolTransportExecute(served.reply)} :
        /\ op' = "http_toolrunner"
        /\ dispatched' = <<tool>>
        /\ collaborator' = [handler |-> outcome, authorized |-> authorized]
        /\ requests' = <<tool>>
        /\ handler_calls' = served.invoked
        /\ raised' = r.raised
        /\ transport_response' = r.response
        /\ UNCHANGED <<svc, sandbox, stylist, mgmt, calls, controller, ui, stages, chat_out, cfg, whitelist, rules, strict_acl, text, level,
                       response, intent, remote_calls, legacy_calls, plan, replies,
                       execution, context, first_plan>>

\* _proxy_toolrunner(cmd, args) against the toolrunner, whose handler behaves
\* as outcome; the post fails to connect when ~up
ProxyToolrunner(cmd, args, outcome, up) ==
    /\ op = "idle"
    /\ \E served \in {ToolrunnerExecute(cmd, outcome, TRUE)} :
       \E r \in {_proxy_toolrunner(controller.proxy_commands, cmd, args, None,
                    IF up THEN served.reply ELSE HttpRaised("connect_error"))} :
        /\ op' = "proxy_toolrunner"
        /\ dispatched' = <<cmd>>
        /\ collaborator' = [handler |-> outcome, authorized |-> TRUE]
        /\ requests' = IF r.posted /\ up THEN <<cmd>> ELSE <<>>
        /\ handler_calls' = IF r.posted /\ up THEN served.invoked ELSE <<>>
        /\ chat_out' = Some(r.out)
        /\ UNCHANGED <<svc, sandbox, stylist, mgmt, calls, controller, ui, stages, cfg, whitelist, rules, strict_acl, text,
                       level, response, intent, raised, remote_calls, legacy_calls,
                       plan, replies, execution, context, first_plan,
                       transport_response>>

\* the variables the /chat call of run_once leaves its trace in
ChatTrace(ch, t, resp, outcomes, res) ==
    /\ text' = t
    /\ response' = IF ch.handled.resolved.remote_calls > 0 THEN resp ELSE NoResponse
    /\ intent' = ch.handled.resolved.intent
    /\ raised' = ch.raised
    /\ remote_calls' = ch.handled.resolved.remote_calls
    /\ legacy_calls' = ch.handled.resolved.legacy_calls
    /\ plan' = ch.handled.plan
    /\ execution' = ch.handled.execution
    /\ dispatched' = ch.handled.dispatched
    /\ stages' = ch.handled.stages
    /\ chat_out' = ch.out
    /\ collaborator' = [handlers |-> outcomes, adapter |-> res]
    /\ UNCHANGED <<svc, sandbox, stylist, mgmt, calls, controller, ui, cfg, whitelist, rules, strict_acl, level,
                   replies, context, first_plan, transport_response>>

\* run_once(cfg, t, mode, no_exec) of the CLI: do_chat, which the controller
\* serves with chat(inp), then do_execute unless the answer or the settings
\* stop it
RunOnce(t, resp, outcomes, res, no_exec, yes) ==
    /\ op = "idle"
    /\ \E steps \in {PlannedSteps(cfg, whitelist, rules, t, resp)} :
       \E transport \in {ToolrunnerReplies(steps, outcomes)} :
       \E result \in {IF controller.planner_enabled
                      THEN PipelineHandle(cfg, whitelist, rules, strict_acl, t,
                                          resp, transport)
                      ELSE NotHandled} :
       \E dec \in {_from_resolver(t, res)} :
       \E ch \in {ControllerChat(controller, result, dec, outcomes[1])} :
       \E posts \in {RunOnceRequests(ui, ch, no_exec, yes)} :
        /\ op' = "run_once"
        /\ requests' = posts
        /\ handler_calls' = HandlersInvoked(posts)
        /\ ChatTrace(ch, t, resp, outcomes, res)

\* the caller takes the result; the service objects keep no trace of the call
Return ==
    /\ op # "idle"
    /\ op' = "idle"
    /\ text' = <<>>
    /\ level' = 0
    /\ response' = NoResponse
    /\ intent' = NoIntent
    /\ raised' = ""
    /\ remote_calls' = 0
    /\ legacy_calls' = 0
    /\ plan' = None
    /\ replies' = <<>>
    /\ execution' = None
    /\ dispatched' = <<>>
    /\ context' = <<>>
    /\ transport_response' = None
    /\ collaborator' = NoCollaborator
    /\ requests' = <<>>
    /\ handler_calls' = <<>>
    /\ chat_out' = None
    /\ stages' = <<>>
    /\ UNCHANGED <<cfg, whitelist, rules, strict_acl, first_plan, controller, ui,
                   calls, svc, sandbox, stylist, mgmt>>

\* one Pipeline shared by the callers
InitConcurrent ==
    /\ cfg \in PipelineConfigs
    /\ whitelist = InitWhitelist(cfg)
    /\ rules \in RuleTables
    /\ strict_acl = TRUE
    /\ controller = DefaultController
    /\ ui = DefaultUi
    /\ Idle

\* what a step of a concurrent call leaves alone
CallFrame ==
    UNCHANGED <<cfg, op, text, level, response, intent, raised, remote_calls,
                legacy_calls, plan, replies, execution, dispatched, context,
                first_plan, transport_response, collaborator, requests,
                handler_calls, chat_out, controller, ui, stages, svc, sandbox,
                stylist, mgmt>>

\* caller c enters handle(t)
CallStart(c, t, resp, reply) ==
    /\ calls[c].pc = "idle"
    /\ calls' = [calls EXCEPT ![c] =
            Call("resolving", t, resp, reply, NoIntent, None, None, "",
                 calls[CHOOSE o \in Callers : o # c].pc)]
    /\ UNCHANGED <<whitelist, rules, strict_acl>>
    /\ CallFrame

\* intent = self._resolver.resolve(text)
CallResolve(c) ==
    /\ calls[c].pc = "resolving"
    /\ \E r \in {resolve(cfg, whitelist, calls[c].t, calls[c].resp)} :
        /\ calls' = [calls EXCEPT ![c].intent = r.intent, ![c].raised = r.raised,
                        ![c].pc = IF r.raised # "" \/ ~is_command(r.intent)
                                  THEN "done" ELSE "planning"]
        /\ whitelist' = ResolverAfterResolve(whitelist, r.intent)
    /\ UNCHANGED <<rules, strict_acl>>
    /\ CallFrame

\* plan = self._planner.plan(intent)
CallPlan(c) ==
    /\ calls[c].pc = "planning"
    /\ \E pl \in {PlannerPlan(rules, calls[c].intent, <<>>)} :
        /\ calls' = [calls EXCEPT
                        ![c].raised = pl.raised,
                        ![c].plan = IF pl.raised # "" THEN None ELSE Some(pl.plan),
                        ![c].pc = IF pl.raised = "" /\ is_valid(pl.plan)
                                  THEN "executing" ELSE "done"]
        /\ rules' = IF pl.raised # "" THEN rules ELSE PlannerAfterPlan(rules, pl.plan)
    /\ UNCHANGED <<whitelist, strict_acl>>
    /\ CallFrame

\* execution = self._executor.execute(plan)
CallExecute(c) ==
    /\ calls[c].pc = "executing"
    /\ \E ex \in {Execute(calls[c].plan.v, strict_acl, calls[c].reply)} :
        /\ calls' = [calls EXCEPT ![c].execution = Some(ex.result), ![c].pc = "done"]
        /\ strict_acl' = ExecutorAfterExecute(strict_acl, ex.result)
    /\ UNCHANGED <<whitelist, rules>>
    /\ CallFrame

\* handle returns to caller c
CallReturn(c) ==
    /\ calls[c].pc = "done"
    /\ calls' = [calls EXCEPT ![c] = IdleCall]
    /\ UNCHANGED <<whitelist, rules, strict_acl>>
    /\ CallFrame

NextConcurrent ==
    \/ \E c \in Callers, t \in ConcurrentTexts, resp \in ConcurrentRemote :
            \E reply \in ConcurrentReplies : CallStart(c, t, resp, reply)
    \/ \E c \in Callers : CallResolve(c)
    \/ \E c \in Callers : CallPlan(c)
    \/ \E c \in Callers : CallExecute(c)
    \/ \E c \in Callers : CallReturn(c)

\* the module-level router needs no instance
InitLegacy ==
    /\ cfg = DefaultConfig
    /\ whitelist = InitWhitelist(cfg)
    /\ rules = NoRules
    /\ strict_acl = TRUE
    /\ controller = DefaultController
    /\ ui = DefaultUi
    /\ Idle

\* legacy_route(text)
LegacyRoute(t) ==
    /\ op = "idle"
    /\ op' = "legacy_route"
    /\ text' = t
    /\ intent' = legacy_route(t)
    /\ legacy_calls' = 1
    /\ UNCHANGED <<svc, sandbox, stylist, mgmt, calls, controller, ui, stages, requests, handler_calls, chat_out,
                   cfg, whitelist, rules, strict_acl, level, response, raised,
                   remote_calls, plan, replies, execution, dispatched, context,
                   first_plan, transport_response, collaborator>>

NextLegacy ==
    \/ /\ op = "idle"
       /\ \E t \in ManagementTexts \cup Texts : LegacyRoute(t)
    \/ Return

\* the pipeline, its collaborators and the controller are left alone
CoreFrame ==
    UNCHANGED <<cfg, whitelist, rules, strict_acl, op, text, level, response,
                intent, raised, remote_calls, legacy_calls, plan, replies,
                execution, dispatched, context, first_plan, transport_response,
                collaborator, requests, handler_calls, chat_out, controller, ui,
                stages, calls>>

\* the disambiguation service with its rules loaded
InitService ==
    /\ cfg = DefaultConfig
    /\ whitelist = InitWhitelist(cfg)
    /\ rules = NoRules
    /\ strict_acl = TRUE
    /\ controller = DefaultController
    /\ ui = DefaultUi
    /\ IdleCore
    /\ svc = None
    /\ sandbox = None
    /\ stylist = None
    /\ mgmt = None

\* POST /resolve
PostResolve(c, u, cand, llm, wl) ==
    /\ \E r \in {RulesResolve(ServiceResolver, c, u, cand, llm)} :
            svc' = Some([config |-> c, utterance |-> u, constraints |-> wl,
                         asked |-> r.asked, matched |-> r.matched,
                         packed |-> r.packed, resolved |-> r.out,
                         out |-> ServiceResolve(r.out, wl)])
    /\ UNCHANGED <<sandbox, stylist, mgmt>>
    /\ CoreFrame

NextService ==
    \E c \in ServiceConfigs, u \in Utterances, cand \in Candidates :
        \E llm \in LlmAnswers, wl \in RequestWhitelists : PostResolve(c, u, cand, llm, wl)

\* the toolrunner with its workspace configured
InitSandbox ==
    /\ cfg = DefaultConfig
    /\ whitelist = InitWhitelist(cfg)
    /\ rules = NoRules
    /\ strict_acl = TRUE
    /\ controller = DefaultController
    /\ ui = DefaultUi
    /\ IdleCore
    /\ svc = None
    /\ sandbox = Some(FilesOutcome([base |-> Workspace], "", EmptyString, "", None,
                                   InitialFiles, {}))
    /\ stylist = None
    /\ mgmt = None

FilesRead(rel) ==
    /\ sandbox' = Some(cmd_files_read(sandbox.v, rel))
    /\ UNCHANGED <<svc, stylist, mgmt>>
    /\ CoreFrame

FilesCreate(rel) ==
    /\ sandbox' = Some(cmd_files_create(sandbox.v, rel))
    /\ UNCHANGED <<svc, stylist, mgmt>>
    /\ CoreFrame

FilesAppend(rel) ==
    /\ sandbox' = Some(cmd_files_append(sandbox.v, rel))
    /\ UNCHANGED <<svc, stylist, mgmt>>
    /\ CoreFrame

NextSandbox ==
    \E rel \in ToolrunnerPaths :
        \/ FilesRead(rel)
        \/ FilesCreate(rel)
        \/ FilesAppend(rel)

\* Stylist(templates, history_size)
InitStylist ==
    /\ cfg = DefaultConfig
    /\ whitelist = InitWhitelist(cfg)
    /\ rules = NoRules
    /\ strict_acl = TRUE
    /\ controller = DefaultController
    /\ ui = DefaultUi
    /\ IdleCore
    /\ svc = None
    /\ sandbox = None
    /\ \E size \in 0..MaxHistory, t \in StylistTemplates :
            stylist = Some([history_size |-> Max(1, size),
                            templates |-> t,
                            history |-> [k \in DOMAIN t |-> <<>>],
                            previous |-> [k \in DOMAIN t |-> None],
                            latest |-> [k \in DOMAIN t |-> None],
                            key |-> "", chosen |-> None, said |-> <<>>,
                            cleared |-> FALSE])
    /\ mgmt = None

\* a say_key call on a key that has variants
SayKey(key, params) ==
    /\ key \in DOMAIN stylist.v.templates
    /\ \E k \in 1..Len(Pool(stylist.v.templates[key], stylist.v.history[key])) :
        LET chosen == Pool(stylist.v.templates[key], stylist.v.history[key])[k]
        IN  /\ chosen.weight > 0
            /\ stylist' = Some(say_key(stylist.v, key, params, chosen))
    /\ UNCHANGED <<svc, sandbox, mgmt>>
    /\ CoreFrame

\* a say_key call on a key without variants
SayMissingKey(key, params) ==
    /\ key \notin DOMAIN stylist.v.templates
    /\ stylist' = Some(say_key(stylist.v, key, params, Variant(<<>>, 1)))
    /\ UNCHANGED <<svc, sandbox, mgmt>>
    /\ CoreFrame

NextStylist ==
    \E key \in StylistKeys, params \in StylistParams :
        \/ SayKey(key, params)
        \/ SayMissingKey(key, params)

\* ManagementService() on an empty database
InitManagement ==
    /\ cfg = DefaultConfig
    /\ whitelist = InitWhitelist(cfg)
    /\ rules = NoRules
    /\ strict_acl = TRUE
    /\ controller = DefaultController
    /\ ui = DefaultUi
    /\ IdleCore
    /\ svc = None
    /\ sandbox = None
    /\ stylist = None
    /\ mgmt = Some([now |-> 0, tasks |-> <<>>, events |-> <<>>,
                    last |-> ManagementCall("", 0, 0, ActionResult(TRUE, FALSE, 0),
                                            <<>>)])

CreateTask(priority, start_time, now) ==
    /\ Len(mgmt.v.tasks) < MaxTasks
    /\ now >= mgmt.v.now
    /\ mgmt' = Some(create_task(mgmt.v, priority, start_time, now))
    /\ UNCHANGED <<svc, sandbox, stylist>>
    /\ CoreFrame

ShiftTask(id, new_start, new_end, lvl, now) ==
    /\ id \in 1..Len(mgmt.v.tasks)
    /\ now >= mgmt.v.now
    /\ mgmt' = Some(shift_task(mgmt.v, id, new_start, new_end, lvl, now))
    /\ UNCHANGED <<svc, sandbox, stylist>>
    /\ CoreFrame

CancelTask(id, lvl, now) ==
    /\ id \in 1..Len(mgmt.v.tasks)
    /\ now >= mgmt.v.now
    /\ mgmt' = Some(cancel_task(mgmt.v, id, lvl, now))
    /\ UNCHANGED <<svc, sandbox, stylist>>
    /\ CoreFrame

AdjustPriority(id, priority, now) ==
    /\ id \in 1..Len(mgmt.v.tasks)
    /\ now >= mgmt.v.now
    /\ mgmt' = Some(adjust_priority(mgmt.v, id, priority, now))
    /\ UNCHANGED <<svc, sandbox, stylist>>
    /\ CoreFrame

NextManagement ==
    \E now \in Clock :
        \/ \E priority \in Priorities, start_time \in StartTimes :
                CreateTask(priority, start_time, now)
        \/ \E id \in 1..MaxTasks, new_start \in StartTimes, new_end \in EndTimes :
                \E lvl \in ConfirmationLevels : ShiftTask(id, new_start, new_end, lvl, now)
        \/ \E id \in 1..MaxTasks, lvl \in ConfirmationLevels : CancelTask(id, lvl, now)
        \/ \E id \in 1..MaxTasks, priority \in Priorities : AdjustPriority(id, priority, now)

\* chat(inp) of POST /chat called on its own: the pipeline's handle call when
\* the pipeline is built, then the rest of the handler; the execute requests
\* are those the controller itself makes
Chat(t, resp, outcomes, res) ==
    /\ op = "idle"
    /\ \E steps \in {PlannedSteps(cfg, whitelist, rules, t, resp)} :
       \E transport \in {ToolrunnerReplies(steps, outcomes)} :
       \E result \in {IF controller.planner_enabled
                      THEN PipelineHandle(cfg, whitelist, rules, strict_acl, t,
                                          resp, transport)
                      ELSE NotHandled} :
       \E dec \in {_from_resolver(t, res)} :
       \E ch \in {ControllerChat(controller, result, dec, outcomes[1])} :
       \E posts \in {ch.requests} :
        /\ op' = "chat"
        /\ requests' = posts
        /\ handler_calls' = HandlersInvoked(posts)
        /\ ChatTrace(ch, t, resp, outcomes, res)

NextResolver ==
    \/ /\ op = "idle"
       /\ \E t \in Texts, resp \in RemoteOutcomes : Resolve(t, resp)
    \/ Return

NextExecutor ==
    \/ /\ op = "idle"
       /\ \E p \in DirectPlans, lvl \in 0..MaxLevel :
            \E reply \in Replies(Len(p.steps)) : ExecutorExecute(p, reply, lvl)
    \/ Return

NextPipeline ==
    \/ /\ op = "idle"
       /\ \E t \in Texts, resp \in PipelineOutcomes, lvl \in 0..MaxLevel :
            \E reply \in Replies(RuleSteps) : Handle(t, resp, reply, lvl)
    \/ Return

NextPlanner ==
    \/ /\ op = "idle"
       /\ \E i \in PlannerIntents, ctx \in PlannerContexts : PlannerPlanCall(i, ctx)
    \/ Return

NextTransport ==
    \/ /\ op = "idle"
       /\ \E tool \in TransportTools, reply \in HttpOutcomes : HttpExecute(tool, reply)
    \/ /\ op = "idle"
       /\ \E tool \in TransportTools, outcome \in HandlerOutcomes :
            LocalExecute(tool, outcome)
    \/ /\ op = "idle"
       /\ \E tool \in TransportTools, outcome \in HandlerOutcomes :
            \E authorized \in BOOLEAN : HttpToolrunnerExecute(tool, outcome, authorized)
    \/ /\ op = "idle"
       /\ \E cmd \in ProxyCommands, args \in ProxyArguments :
            \E outcome \in HandlerOutcomes, up \in BOOLEAN :
                ProxyToolrunner(cmd, args, outcome, up)
    \/ Return

NextController ==
    \/ /\ op = "idle"
       /\ \E t \in ChatTexts, resp \in ChatRemote :
            \E outcomes \in StepOutcomes, res \in AdapterOutcomes :
                \E no_exec \in BOOLEAN, yes \in BOOLEAN :
                    RunOnce(t, resp, outcomes, res, no_exec, yes)
    \/ Return

NextChat ==
    \/ /\ op = "idle"
       /\ \E t \in ChatTexts, resp \in ChatRemote :
            \E outcomes \in StepOutcomes, res \in AdapterOutcomes :
                Chat(t, resp, outcomes, res)
    \/ Return

SpecResolver == InitResolver /\ [][NextResolver]_vars
SpecExecutor == InitExecutor /\ [][NextExecutor]_vars
SpecPipeline == InitPipeline /\ [][NextPipeline]_vars
SpecPlanner == InitPlanner /\ [][NextPlanner]_vars
SpecTransport == InitTransport /\ [][NextTransport]_vars
SpecController == InitController /\ [][NextController]_vars
SpecChat == InitController /\ [][NextChat]_vars

SpecConcurrent == InitConcurrent /\ [][NextConcurrent]_vars

SpecLegacy == InitLegacy /\ [][NextLegacy]_vars

SpecService == InitService /\ [][NextService]_vars

SpecSandbox == InitSandbox /\ [][NextSandbox]_vars

SpecStylist == InitStylist /\ [][NextStylist]_vars

SpecManagement == InitManagement /\ [][NextManagement]_vars

(***************************************************************************)
(* Properties                                                              *)
(***************************************************************************)
\* what the remote stage handed to resolve in the call the state holds
RemoteStage == _resolve_remote(whitelist, text, response)
RemoteReturnedCommand ==
    /\ remote_calls = 1
    /\ RemoteStage.raised = ""
    /\ is_command(RemoteStage.intent)

\* C1: every command Intent returned by ResolverService.resolve carries a
\* name of the configured whitelist, on every return path.
C1_CommandNameInWhitelist ==
    (op = "resolve" /\ raised = "" /\ is_command(intent))
        => intent.name.v \in whitelist

\* C2: a plan whose policy asks for a higher confirmation level than the
\* caller holds has none of its steps sent to the transport by
\* Pipeline.handle.
C2_NoExecutionWithoutConfirmation ==
    (op = "handle" /\ plan.some /\ requires_confirmation(plan.v.policy, level))
        => dispatched = <<>>

\* C3 (as stated): under strict_acl, a valid plan with a step whose tool's
\* ACL tag is not among the policy's tags yields ok=false, errors[0] an
\* E_ACL_DENY error and no event after the denied step's.
TagMismatch(p, k) ==
    /\ get_tool_metadata(p.steps[k].tool).some
    /\ get_tool_metadata(p.steps[k].tool).v.acl_tag \notin p.policy.acl_tags

AclDenyErrors == {"E_ACL_DENY:" \o tl : tl \in DOMAIN TOOL_METADATA \cup ExecTools}

C3_AclMismatchAlwaysDenied ==
    (/\ op = "execute" /\ strict_acl /\ is_valid(plan.v)
     /\ \E k \in 1..Len(plan.v.steps) : TagMismatch(plan.v, k))
        => /\ ~execution.v.ok
           /\ execution.v.errors # <<>>
           /\ execution.v.errors[1] \in AclDenyErrors
           /\ \A j \in 1..Len(execution.v.events) :
                (execution.v.events[j].error.some
                 /\ execution.v.events[j].error.v \in AclDenyErrors)
                    => j = Len(execution.v.events)

\* step k is attempted: no earlier step is denied, and every earlier step
\* either succeeded or is marked on_error="continue"
Reached(p, reply, k) ==
    \A j \in 1..(k - 1) :
        /\ ~TagMismatch(p, j)
        /\ reply[j].ok \/ p.steps[j].on_error = "continue"

\* C3 (amended): under strict_acl and a non-empty policy tag set, when the
\* execution of a valid plan reaches a step whose tool has a metadata entry
\* with an acl_tag outside the policy's tags, the result has ok=false, its
\* last error is E_ACL_DENY:<tool> (the only error when no earlier step
\* failed), the denied step's event is the last event, and neither that step
\* nor a later one is dispatched.
C3_ReachedMismatchDenied ==
    (/\ op = "execute" /\ strict_acl /\ is_valid(plan.v)
     /\ plan.v.policy.acl_tags # {})
        => \A k \in 1..Len(plan.v.steps) :
            (TagMismatch(plan.v, k) /\ Reached(plan.v, replies, k))
                => LET deny == "E_ACL_DENY:" \o plan.v.steps[k].tool
                       res == execution.v
                   IN  /\ ~res.ok
                       /\ Len(res.events) = k
                       /\ res.events[k] =
                            ExecutionEvent(plan.v.steps[k].step_id,
                                plan.v.steps[k].tool, FALSE, None, Some(deny))
                       /\ res.errors # <<>>
                       /\ res.errors[Len(res.errors)] = deny
                       /\ (\A j \in 1..(k - 1) : replies[j].ok)
                            => res.errors = <<deny>>
                       /\ Len(dispatched) = k - 1

C3_Witness ==
    /\ op = "execute" /\ strict_acl
    /\ Len(execution.v.events) = 2
    /\ execution.v.events[1].ok
    /\ execution.v.events[2].error = Some("E_ACL_DENY:files.create")
    /\ dispatched = <<"files.read">>

\* C4: under strict_acl and a non-empty policy tag set, every tool handed to
\* transport.execute has a metadata entry whose acl_tag is in the policy's
\* tags (a tool without a metadata entry is never dispatched).
C4_DispatchedToolsCarryAllowedTag ==
    (/\ op = "execute" /\ strict_acl /\ is_valid(plan.v)
     /\ plan.v.policy.acl_tags # {})
        => \A i \in 1..Len(dispatched) :
            /\ get_tool_metadata(dispatched[i]).some
            /\ get_tool_metadata(dispatched[i]).v.acl_tag \in plan.v.policy.acl_tags

\* C5: when the remote call fails by timeout, connection error or HTTP error
\* status, resolve raises nothing and returns the Legacy Router's command if
\* the text matches a whitelisted one, and a chat Intent otherwise.
C5_RemoteFailureDegrades ==
    (op = "resolve" /\ response.kind \in {"timeout", "connect_error", "http_status"})
        => /\ raised = ""
           /\ IF is_command(legacy_route(text))
                 /\ legacy_route(text).name.v \in whitelist
              THEN /\ is_command(intent)
                   /\ intent.name = legacy_route(text).name
                   /\ intent.args = legacy_route(text).args
              ELSE intent.kind = "chat" /\ intent.text = Some(text)

C5_Witness ==
    /\ op = "resolve" /\ response.kind = "timeout"
    /\ is_command(intent) /\ intent.meta.source = Some("legacy")

\* a response body that is not JSON, is JSON but not an object, or is an
\* object with a wrongly typed field
Malformed(resp) ==
    \/ resp.kind = "non_json"
    \/ /\ resp.kind = "json"
       /\ \/ resp.data.t # "dict"
          \/ /\ resp.data.t = "dict"
             /\ \/ resp.data.fields.command.t \notin {"absent", "str"}
                \/ resp.data.fields.args.t \notin {"absent", "dict"}
                \/ resp.data.fields.confidence.t \notin {"absent", "num"}
                \/ resp.data.fields.explain.t \notin {"absent", "list"}

\* C6: on a malformed remote response _resolve_remote returns a chat Intent
\* with rule "remote_error" and nothing is raised out of the resolver.
C6_MalformedResponseIsRemoteError ==
    (op = "resolve" /\ remote_calls = 1 /\ Malformed(response))
        => /\ raised = ""
           /\ RemoteStage.raised = ""
           /\ RemoteStage.intent.kind = "chat"
           /\ RemoteStage.intent.meta.rule = Some("remote_error")

\* the remote stage returned a command whose confidence is below the threshold
\* while use_legacy_when_low_conf is set
LowConfidenceCommand ==
    /\ op = "resolve"
    /\ RemoteReturnedCommand
    /\ cfg.use_legacy_when_low_conf
    /\ RemoteStage.intent.meta.confidence.some
    /\ RemoteStage.intent.meta.confidence.v < cfg.low_conf_threshold

\* C7 (as stated): in the low-confidence case the returned Intent has the
\* command and args of the Legacy Router's output for the text and the remote
\* confidence.
C7_LowConfidenceUsesLegacyOutput ==
    LowConfidenceCommand
        => /\ intent.name = legacy_route(text).name
           /\ intent.args = legacy_route(text).args
           /\ intent.meta.confidence = RemoteStage.intent.meta.confidence

\* C7 (amended): in the low-confidence case, if the Legacy Router matches a
\* command for the text the returned Intent has that command and its args,
\* fallback_used=true and the remote confidence; if it matches none, the
\* remote command Intent is returned unchanged.
C7_LowConfidenceLegacyOrRemote ==
    LowConfidenceCommand
        => IF is_command(legacy_route(text))
           THEN /\ is_command(intent)
                /\ intent.name = legacy_route(text).name
                /\ intent.args = legacy_route(text).args
                /\ intent.meta.fallback_used
                /\ intent.meta.confidence = RemoteStage.intent.meta.confidence
           ELSE intent = RemoteStage.intent

C7_Witness ==
    /\ LowConfidenceCommand
    /\ is_command(legacy_route(text))
    /\ intent.meta.source = Some("legacy")
    /\ intent.meta.confidence = Some(30)
    /\ intent.name # RemoteStage.intent.name

\* lexical hints of command intent: an action verb of the rule tables or a
\* file-like token (quoted, or a name that is not a plain word)
ActionVerbs ==
    {"sozdaj", "sozdat", "prochitaj", "prochitat", "pokazhi", "pokazat", "spisok",
     "fajly", "fajl", "otkroj", "otkryt", "dopishi", "dobav", "pomosch", "konfig",
     "yarlyk", "menedzhment", "upravlenie"}

HasCommandHint(t) ==
    \E i \in 1..Len(t) : t[i].w \in ActionVerbs \/ t[i].lq \/ ~t[i].word

IgnoredNotes ==
    {"ignored_remote_command"}
        \cup {"ignored_remote_command:" \o c : c \in ALLOWED \cup {"notes.search"}}

\* C8: a whitelisted remote command is downgraded to a chat Intent (original
\* text, rule "remote_suspect_command", an explain entry starting with
\* "ignored_remote_command") when the text has no lexical hint of command
\* intent; when the text has a hint (and the low-confidence substitution does
\* not apply) the remote command is returned.
C8_RemoteCommandVetoedWithoutHint ==
    (op = "resolve" /\ RemoteReturnedCommand)
        => IF ~HasCommandHint(text)
           THEN /\ intent.kind = "chat"
                /\ intent.text = Some(text)
                /\ intent.meta.rule = Some("remote_suspect_command")
                /\ \E i \in 1..Len(intent.meta.explain) :
                     intent.meta.explain[i] \in IgnoredNotes
           ELSE ~LowConfidenceCommand => intent = RemoteStage.intent

\* C9: when the Quick Rule Matcher yields a whitelisted command, resolve
\* returns it with the quick rule's name and args, source "quick" and
\* confidence 0.99, without a remote call and without the Legacy Router,
\* whatever the mode and the remote configuration.
C9_QuickRulesFirst ==
    (/\ op = "resolve" /\ resolve_quick(text).some
     /\ resolve_quick(text).v.name.v \in whitelist)
        => /\ raised = ""
           /\ is_command(intent)
           /\ intent.name = resolve_quick(text).v.name
           /\ intent.args = resolve_quick(text).v.args
           /\ intent.meta.source = Some("quick")
           /\ intent.meta.confidence = Some(99)
           /\ remote_calls = 0
           /\ legacy_calls = 0

C9_Witness ==
    /\ op = "resolve"
    /\ cfg.mode = "remote" /\ cfg.remote_url # ""
    /\ intent.meta.source = Some("quick")
    /\ intent.name = Some("files.append")
    /\ is_command(legacy_route(text)) = FALSE

\* neither the quick stage nor the remote stage ended the call
ReachedLegacyStage ==
    /\ op = "resolve" /\ raised = ""
    /\ ~(resolve_quick(text).some /\ resolve_quick(text).v.name.v \in whitelist)
    /\ remote_calls = 1 => ~is_command(RemoteStage.intent)

\* C10: when neither the quick nor the remote stage produced a command and
\* the Legacy Router matches a command, resolve returns that command with
\* confidence 0.49 and fallback_used=true if it is whitelisted, and returns no
\* command if it is not.
C10_LegacyFinalStage ==
    (ReachedLegacyStage /\ is_command(legacy_route(text)))
        => IF legacy_route(text).name.v \in whitelist
           THEN /\ is_command(intent)
                /\ intent.name = legacy_route(text).name
                /\ intent.args = legacy_route(text).args
                /\ intent.meta.confidence = Some(49)
                /\ intent.meta.fallback_used
           ELSE ~is_command(intent)

C10_Witness ==
    /\ ReachedLegacyStage
    /\ is_command(legacy_route(text))
    /\ legacy_route(text).name.v \notin whitelist
    /\ intent.kind = "chat"
    /\ remote_calls = 1

\* no stage matched the text: no quick rule, no command from the remote stage
\* (when it was called), no legacy pattern
NoStageMatched ==
    /\ op = "resolve"
    /\ ~resolve_quick(text).some
    /\ remote_calls = 1 => ~(RemoteStage.raised = "" /\ is_command(RemoteStage.intent))
    /\ ~is_command(legacy_route(text))

\* C11: for a text that no stage (quick, remote, legacy) matches, resolve
\* returns an Intent of kind chat that carries the original text.
C11_NoMatchReturnsChat ==
    NoStageMatched
        => /\ raised = ""
           /\ intent.kind = "chat"
           /\ intent.text = Some(text)

\* rule["steps"] of the rule the table holds for a command name
DeclaredSteps(rl, name) ==
    IF DOMAIN rl[name] = {} THEN <<>> ELSE rl[name].steps

\* C12: Planner.plan never raises and returns a Plan with error E_NOT_COMMAND
\* when the Intent is not a command, E_NO_RULE when the rule table has no
\* entry for the command name, E_EMPTY_PLAN when the matched rule declares
\* zero steps, and a valid Plan otherwise.
C12_PlanOutcomes ==
    op = "plan"
        => /\ raised = ""
           /\ plan.some
           /\ IF ~is_command(intent)
              THEN plan.v.error = Some("E_NOT_COMMAND")
              ELSE IF intent.name.v \notin DOMAIN rules
              THEN plan.v.error = Some("E_NO_RULE")
              ELSE IF DeclaredSteps(rules, intent.name.v) = <<>>
              THEN plan.v.error = Some("E_EMPTY_PLAN")
              ELSE is_valid(plan.v)

\* C13: every Plan returned by Planner.plan has is_valid exactly when it has
\* no error and at least one step, and has no error exactly when it has at
\* least one step.
C13_ValidIffNoErrorAndSteps ==
    (op = "plan" /\ plan.some)
        => /\ is_valid(plan.v) <=> (~plan.v.error.some /\ plan.v.steps # <<>>)
           /\ ~plan.v.error.some <=> plan.v.steps # <<>>

C13_Witness ==
    /\ op = "plan" /\ plan.some
    /\ plan.v.error = Some("E_EMPTY_PLAN")
    /\ plan.v.steps = <<>>
    /\ intent.name.v \in DOMAIN rules

\* C14: the step_id values of the steps of a Plan returned by Planner.plan are
\* pairwise distinct.
C14_StepIdsDistinct ==
    (op = "plan" /\ plan.some)
        => \A a, b \in 1..Len(plan.v.steps) :
            a # b => plan.v.steps[a].step_id # plan.v.steps[b].step_id

C16_EventsArePlanPrefix ==
    (op = "execute" /\ is_valid(plan.v))
        => LET ev == execution.v.events
               st == plan.v.steps
           IN  /\ Len(ev) <= Len(st)
               /\ \A n \in 1..Len(ev) :
                    ev[n].step_id = st[n].step_id /\ ev[n].tool = st[n].tool
               /\ Len(dispatched) \in {Len(ev), Len(ev) - 1}
               /\ \A n \in 1..Len(dispatched) : dispatched[n] = st[n].tool

C16_Witness ==
    /\ op = "execute" /\ is_valid(plan.v)
    /\ Len(plan.v.steps) = 2
    /\ Len(execution.v.events) = 2
    /\ Len(dispatched) = 2
    /\ plan.v.steps[1].tool # plan.v.steps[2].tool

\* the error Executor.execute records for a failed transport response
RecordedError(resp) == OrElse(resp.error, "E_COMMAND_FAILED").v

\* C17: when the transport response of a step is not ok its error is recorded
\* in errors; unless the step is marked on_error="continue" the step's event
\* is the last event and no later step is attempted; if it is so marked the
\* next step is attempted and the result is still not ok.
C17_FailFast ==
    (op = "execute" /\ is_valid(plan.v))
        => \A n \in 1..Len(dispatched) :
            ~replies[n].ok
                => /\ \E e \in 1..Len(execution.v.errors) :
                        execution.v.errors[e] = RecordedError(replies[n])
                   /\ execution.v.events[n].error = replies[n].error
                   /\ ~execution.v.ok
                   /\ IF plan.v.steps[n].on_error # "continue"
                      THEN /\ Len(execution.v.events) = n
                           /\ Len(dispatched) = n
                      ELSE n < Len(plan.v.steps)
                            => Len(execution.v.events) >= n + 1

C17_Witness ==
    /\ op = "execute" /\ is_valid(plan.v)
    /\ Len(plan.v.steps) = 2
    /\ plan.v.steps[1].on_error = "continue"
    /\ ~replies[1].ok /\ replies[2].ok
    /\ Len(dispatched) = 2
    /\ ~execution.v.ok

\* C18: every ExecutionResult has ok exactly when errors is empty.
C18_OkIffNoErrors ==
    op = "execute" => (execution.v.ok <=> execution.v.errors = <<>>)

C18_Witness ==
    /\ op = "execute" /\ is_valid(plan.v)
    /\ ~execution.v.ok
    /\ Len(execution.v.errors) = 1
    /\ execution.v.events[Len(execution.v.events)].ok

\* the dispatched steps whose transport response was ok
Succeeded == { n \in 1..Len(dispatched) : replies[n].ok }

\* C19: ExecutionResult.result is the result of the last step, in execution
\* order, whose transport response was ok, and None when no step succeeded.
C19_ResultOfLastSuccess ==
    op = "execute"
        => execution.v.result =
            IF Succeeded = {} THEN None
            ELSE replies[CHOOSE n \in Succeeded : \A m \in Succeeded : m <= n].result

C19_Witness ==
    /\ op = "execute" /\ is_valid(plan.v)
    /\ Len(dispatched) = 2
    /\ replies[1].ok /\ ~replies[2].ok
    /\ execution.v.result = Some(1)
    /\ ~execution.v.ok

\* C20: every TransportResponse with ok=false that HttpToolTransport.execute
\* or LocalToolTransport.execute returns has result None and a non-empty
\* error string.
C20_FailedResponseHasErrorOnly ==
    (/\ op \in {"http_execute", "local_execute"}
     /\ transport_response.some /\ ~transport_response.v.ok)
        => /\ transport_response.v.result = None
           /\ transport_response.v.error.some
           /\ transport_response.v.error.v # ""

(***************************************************************************)
(* C21: for one tool and one handler behaviour (a returned value, any      *)
(* exception, or no such tool) the HTTP transport talking to the           *)
(* toolrunner and the in-process transport return the same                 *)
(* TransportResponse.                                                      *)
(***************************************************************************)
\* what LocalToolTransport returns for the tool and handler behaviour of the
\* last HttpToolTransport call
LocalTwin ==
    LocalToolTransportExecute(dispatched[1], collaborator.handler).response

C21_TransportsAgree ==
    (op = "http_toolrunner" /\ collaborator.authorized)
        => transport_response = LocalTwin

(***************************************************************************)
(* C22: whatever the HTTP server or the handler does, a transport's        *)
(* execute raises nothing and returns a TransportResponse.                 *)
(***************************************************************************)
TransportCalls == {"http_execute", "local_execute", "http_toolrunner"}

C22_TransportsNeverRaise ==
    op \in TransportCalls => (raised = "" /\ transport_response.some)

(***************************************************************************)
(* C23: a command name outside the list of a boundary reaches no handler   *)
(* there: the controller's proxy answers E_UNKNOWN_COMMAND and posts       *)
(* nothing to the toolrunner, the in-process transport answers             *)
(* E_UNKNOWN_COMMAND and invokes no handler, and the toolrunner's          *)
(* /execute fails the request and invokes no handler.                      *)
(***************************************************************************)
ToolrunnerCalls == {"http_toolrunner", "proxy_toolrunner"}

C23_UnknownCommandNeverHandled ==
    /\ (op = "proxy_toolrunner" /\ dispatched[1] \notin ALLOWED)
            => /\ chat_out.v.ok = Some(FALSE)
               /\ chat_out.v.error = Some("E_UNKNOWN_COMMAND")
               /\ requests = <<>>
               /\ handler_calls = <<>>
    /\ (op = "local_execute" /\ dispatched[1] \notin REGISTRY)
            => /\ transport_response = Some(TransportResponse(FALSE, None,
                                                Some("E_UNKNOWN_COMMAND")))
               /\ handler_calls = <<>>
    /\ (op \in ToolrunnerCalls /\ dispatched[1] \notin ALLOWED_COMMANDS)
            => /\ handler_calls = <<>>
               /\ op = "http_toolrunner" => ~transport_response.v.ok
               /\ op = "proxy_toolrunner" /\ requests # <<>>
                        => chat_out.v.ok = Some(FALSE)
    /\ \A i \in 1..Len(handler_calls) : handler_calls[i] \in REGISTRY

C23_Witness ==
    /\ op = "proxy_toolrunner"
    /\ controller.proxy_commands
    /\ dispatched[1] \notin ALLOWED
    /\ chat_out.v.error = Some("E_UNKNOWN_COMMAND")
    /\ requests = <<>>

(***************************************************************************)
(* C24: over /chat and the run_once that follows it, the toolrunner gets   *)
(* at most one execute request for the command the utterance resolved to.  *)
(***************************************************************************)
\* the number of execute requests for command c
Executions(c) == Cardinality({k \in 1..Len(requests) : requests[k] = c})

C24_AtMostOneExecution ==
    (op = "run_once" /\ chat_out.some /\ chat_out.v.command.some)
        => Executions(chat_out.v.command.v) <= 1

(***************************************************************************)
(* C25: handle runs Resolver, Planner, Executor in this order, the Planner *)
(* only for a command Intent and the Executor only, and once, for a valid  *)
(* Plan; a chat Intent comes back with no plan and no execution, an        *)
(* invalid Plan with no execution, and PipelineResult.ok is true only if   *)
(* an execution ran and was ok.                                            *)
(***************************************************************************)
StageOrders ==
    {<<"resolver">>, <<"resolver", "planner">>, <<"resolver", "planner", "executor">>}

Ran(stage) == \E k \in 1..Len(stages) : stages[k] = stage

C25_StagesGated ==
    op = "handle" =>
        /\ stages \in StageOrders
        /\ Ran("planner") => is_command(intent)
        /\ Ran("executor") => (plan.some /\ is_valid(plan.v))
        /\ execution.some => Ran("executor")
        /\ dispatched # <<>> => Ran("executor")
        /\ raised = "" =>
            /\ ~is_command(intent) => (plan = None /\ execution = None)
            /\ (plan.some /\ ~is_valid(plan.v)) => execution = None
            /\ PipelineResultOk(execution) => (Ran("executor") /\ execution.v.ok)

C25_Witness ==
    /\ op = "handle"
    /\ raised = ""
    /\ plan.some /\ ~is_valid(plan.v)
    /\ execution = None
    /\ stages = <<"resolver", "planner">>

(***************************************************************************)
(* C26: whatever the interleaving of the handle calls on a shared          *)
(* Pipeline, a call that has finished holds the Intent, Plan and           *)
(* ExecutionResult (or the exception) that handle yields for its text and  *)
(* collaborator responses when it runs alone on that Pipeline.             *)
(***************************************************************************)
\* what handle yields for the arguments of call c when nothing else runs
Alone(c) ==
    PipelineHandle(cfg, whitelist, rules, strict_acl, calls[c].t, calls[c].resp,
                   calls[c].reply)

IsManagement(t) == LegacyManagement(t).some

\* the tokens after the action
Trailing(t) == Rest(t, 3)

WellFormed(raw) == \A k \in 1..Len(raw) : raw[k].eq /\ raw[k].k # ""

C27_ManagementArgs ==
    (op = "legacy_route" /\ IsManagement(text)) =>
        /\ WellFormed(Trailing(text)) =>
            /\ is_command(intent)
            /\ intent.name.v = "management.execute"
            /\ "action" \in DOMAIN intent.args
            /\ intent.args.action = <<text[2]>>
            /\ Cardinality(DOMAIN intent.args) = 1 + Len(Trailing(text))
            /\ \A k \in 1..Len(Trailing(text)) :
                    /\ Trailing(text)[k].k \in DOMAIN intent.args
                    /\ intent.args[Trailing(text)[k].k] = ValTok(Trailing(text)[k].v)
        /\ (\E k \in 1..Len(Trailing(text)) : ~Trailing(text)[k].eq) =>
                ~is_command(intent)
        /\ "_extra" \notin DOMAIN intent.args

(***************************************************************************)
(* C28: a successful remote response maps to a command Intent carrying the *)
(* remote confidence when its command is whitelisted, to a fallback        *)
(* command Intent when its command is not whitelisted but fallback_used is *)
(* set, and to a chat Intent in every other case.                          *)
(***************************************************************************)
\* resolve has called the remote service and _resolve_remote has returned
\* an Intent for a JSON object
RemoteAnswered ==
    /\ op = "resolve"
    /\ remote_calls = 1
    /\ response.kind = "json"
    /\ response.data.t = "dict"
    /\ _resolve_remote(whitelist, text, response).raised = ""

C28_RemoteMapping ==
    RemoteAnswered =>
        LET d == response.data.fields
            r == _resolve_remote(whitelist, text, response).intent
        IN  IF d.command.t = "str" /\ d.command.s \in whitelist
            THEN /\ is_command(r)
                 /\ r.name.v = d.command.s
                 /\ r.meta.confidence = _safe_float(d.confidence)
            ELSE IF d.command.t = "str" /\ d.command.s # "" /\ Truthy(d.fallback_used)
            THEN /\ is_command(r)
                 /\ r.name.v = d.command.s
                 /\ r.meta.fallback_used
            ELSE ~is_command(r)

(***************************************************************************)
(* C29: resolve issues at most one remote call, and none when the mode is  *)
(* "quick", when no remote URL is configured, or when the quick stage      *)
(* produced a whitelisted command.                                         *)
(***************************************************************************)
\* the quick stage yields a whitelisted command for the text
QuickHit ==
    resolve_quick(text).some /\ resolve_quick(text).v.name.v \in whitelist

C29_AtMostOneRemoteCall ==
    op = "resolve" =>
        /\ remote_calls \in {0, 1}
        /\ (cfg.mode = "quick" \/ cfg.remote_url = "" \/ QuickHit) => remote_calls = 0

C29_Witness ==
    /\ op = "resolve"
    /\ cfg.mode = "quick"
    /\ cfg.remote_url # ""
    /\ ~QuickHit
    /\ remote_calls = 0
    /\ legacy_calls = 1

(***************************************************************************)
(* C30: a valid Plan has one PlanStep per step the matched rule declares   *)
(* with a tool, in declared order (the claim as stated: per declared       *)
(* step); a step's args are the Intent's args when it sets                 *)
(* use_intent_args and the rule's fixed args otherwise; required_tools     *)
(* lists the steps' tools in order; the policy is the rule's ACL tags and  *)
(* confirmation level; the provenance holds planner_rule_id, the ACL list  *)
(* and the request context.                                                *)
(***************************************************************************)
\* Planner.plan has returned a valid Plan
Planned == op = "plan" /\ raised = "" /\ plan.some /\ is_valid(plan.v)

\* the steps of a rule that name a tool
ToolSteps(raw) == SelectSeq(raw, LAMBDA st : st.tool # "")

\* the Plan p was made of the declared steps raw of rule for Intent i
PlanOf(p, raw, rule, i, ctx) ==
    /\ Len(p.steps) = Len(raw)
    /\ \A k \in 1..Len(raw) :
        /\ p.steps[k].tool = raw[k].tool
        /\ p.steps[k].args = IF raw[k].use_intent_args THEN i.args ELSE raw[k].args
        /\ p.steps[k].on_error = raw[k].on_error
    /\ p.required_tools = [k \in 1..Len(p.steps) |-> p.steps[k].tool]
    /\ p.policy = PlanPolicy(rule.acl, rule.confirmation_level)
    /\ p.provenance.planner_rule_id = OrElse(rule.rule_id, i.name.v)
    /\ p.provenance.acl = rule.acl
    /\ p.provenance.context = ctx

C30_OnePlanStepPerDeclaredStep ==
    Planned =>
        PlanOf(plan.v, rules[intent.name.v].steps, rules[intent.name.v], intent,
               context)

C30_PlanFollowsRule ==
    Planned =>
        PlanOf(plan.v, ToolSteps(rules[intent.name.v].steps), rules[intent.name.v],
               intent, context)

C30_Witness ==
    /\ Planned
    /\ Len(plan.v.steps) < Len(rules[intent.name.v].steps)
    /\ intent.args # <<>>
    /\ \E k \in 1..Len(plan.v.steps) : plan.v.steps[k].args = intent.args
    /\ \E k \in 1..Len(plan.v.steps) : plan.v.steps[k].args # intent.args

(***************************************************************************)
(* C31: when the request carries a non-empty whitelist and the resolved    *)
(* command is outside it, /resolve answers files.list with args {mask},    *)
(* confidence 0.49, fallback_used and "whitelist:forced_fallback" in       *)
(* explain; when the resolved command is in the whitelist the answer is    *)
(* what Resolver.resolve returned.                                         *)
(***************************************************************************)
C31_WhitelistForcesFallback ==
    svc.some =>
        LET wl == svc.v.constraints
            res == svc.v.resolved
            out == svc.v.out
        IN  /\ (wl # {} /\ res.command \notin wl) =>
                /\ out.command = "files.list"
                /\ DOMAIN out.args = {"mask"}
                /\ out.args.mask = MaskOf(res.args)
                /\ out.confidence = 49
                /\ out.fallback_used
                /\ Contains(out.explain, "whitelist:forced_fallback")
            /\ res.command \in wl => out = res

C31_Witness ==
    /\ svc.some
    /\ svc.v.constraints = {"files.list"}
    /\ svc.v.resolved.command = "files.read"
    /\ svc.v.resolved.confidence = 90
    /\ svc.v.out.command = "files.list"
    /\ svc.v.out.confidence = 49
    /\ Contains(svc.v.out.explain, "whitelist:forced_fallback")

(***************************************************************************)
(* C32 as stated: whenever the path extracted from the text lies outside   *)
(* the workspace, Resolver.resolve answers files.list with confidence 0.49 *)
(* and "sandbox:violation" in explain.                                     *)
(***************************************************************************)
Outside(p) == ~p.str \/ ~IsRelativeTo(Resolved(Workspace, p), Workspace)

Downgraded(res) ==
    /\ res.command = "files.list"
    /\ res.confidence = 49
    /\ Contains(res.explain, "sandbox:violation")

C33_UnknownPhraseNoCommand ==
    (svc.some /\ ~svc.v.matched.some) =>
        /\ svc.v.out.command = ""
        /\ svc.v.out.args = <<>>
        /\ svc.v.out.fallback_used
        /\ Contains(svc.v.out.explain, "fallback:rule_miss")

(***************************************************************************)
(* C34: a files.* handler of the toolrunner reads or writes only locations *)
(* inside the workspace root; a relative path that resolves outside it,    *)
(* also into a sibling directory whose name starts with the workspace's    *)
(* name, is rejected with E_PATH_OUTSIDE_WORKSPACE and no file is touched. *)
(***************************************************************************)
C34_PathContainment ==
    sandbox.some =>
        LET box == sandbox.v
        IN  /\ box.touched.some => IsRelativeTo(box.touched.v, box.base)
            /\ \A p \in box.written : IsRelativeTo(p, box.base)
            /\ ( /\ box.command # ""
                 /\ box.path # EmptyString
                 /\ ~box.path.abs
                 /\ ~IsRelativeTo(Resolved(box.base, box.path), box.base) )
               => /\ box.result = "E_PATH_OUTSIDE_WORKSPACE"
                  /\ ~box.touched.some

(***************************************************************************)
(* C35: for a key with at least two variants, no two consecutive say_key   *)
(* calls for that key choose the same variant, whatever the history_size   *)
(* and the random choices, also right after the history of the key was     *)
(* exhausted and cleared.                                                  *)
(***************************************************************************)
C35_NoConsecutiveRepeat ==
    stylist.some =>
        \A key \in DOMAIN stylist.v.templates :
            ( /\ Len(stylist.v.templates[key]) >= 2
              /\ stylist.v.previous[key].some
              /\ stylist.v.latest[key].some )
            => stylist.v.previous[key].v # stylist.v.latest[key].v

(***************************************************************************)
(* C36: shift_task and cancel_task change a task only when the             *)
(* confirmation_level given is at least the level of the task's priority   *)
(* rule (shift: P3 and P4 need 1; cancel: P3 needs 1, P4 needs 2);         *)
(* otherwise they answer success = false, requires_confirmation = true and *)
(* required_level = the rule's level and leave the task's status, times    *)
(* and reminder events as they were.                                       *)
(***************************************************************************)
RequiredLevel(name, priority) ==
    IF name = "shift_task"
    THEN (IF priority \in {"P3", "P4"} THEN 1 ELSE 0)
    ELSE (IF priority = "P3" THEN 1 ELSE IF priority = "P4" THEN 2 ELSE 0)

Gate ==
    (mgmt.some /\ mgmt'.some /\ mgmt'.v.last.op \in {"shift_task", "cancel_task"}) =>
        LET last == mgmt'.v.last
            before == mgmt.v.tasks[last.task_id]
            required == RequiredLevel(last.op, before.priority)
        IN  IF last.level < required
            THEN /\ last.result = ActionResult(FALSE, TRUE, required)
                 /\ mgmt'.v.tasks = mgmt.v.tasks
                 /\ mgmt'.v.events = mgmt.v.events
            ELSE /\ last.result.success
                 /\ ~last.result.requires_confirmation
                 /\ last.op = "cancel_task" =>
                        mgmt'.v.tasks[last.task_id].status = "cancelled"

C36_ConfirmationGate == [][Gate]_vars

C36_Witness ==
    /\ mgmt.some
    /\ mgmt.v.last.op = "cancel_task"
    /\ mgmt.v.last.level = 1
    /\ mgmt.v.tasks[1].priority = "P4"
    /\ mgmt.v.tasks[1].start_time = Some(300)
    /\ mgmt.v.last.result = ActionResult(FALSE, TRUE, 2)
    /\ mgmt.v.tasks[1].status = "planned"
    /\ Len(mgmt.v.events) = 4

(***************************************************************************)
(* C37 as stated: every task with a start_time has exactly one reminder    *)
(* event per distinct offset of its current priority rule, at start_time   *)
(* plus the offset, and exactly one auto_drop event, at created_at +       *)
(* auto_drop_after, if and only if its rule defines auto_drop_after.       *)
(***************************************************************************)
EventsOf(id, event_type) ==
    SelectSeq(mgmt.v.events, LAMBDA e : e.task_id = id /\ e.event_type = event_type)

RemindersAt(id, when) ==
    Len(SelectSeq(EventsOf(id, "reminder"), LAMBDA e : e.scheduled_for = when))

OffsetsOf(task) == Range(PRIORITY_RULES[task.priority].reminder_offsets)

AutoDropFollowsRule(id) ==
    LET task == mgmt.v.tasks[id]
        rule == PRIORITY_RULES[task.priority]
        drops == EventsOf(id, "auto_drop")
    IN  IF rule.auto_drop_after.some
        THEN /\ Len(drops) = 1
             /\ drops[1].scheduled_for = task.created_at + rule.auto_drop_after.v
        ELSE drops = <<>>

C37_SchedulingInvariant ==
    mgmt.some =>
        \A id \in 1..Len(mgmt.v.tasks) :
            LET task == mgmt.v.tasks[id]
            IN  task.start_time.some =>
                    /\ \A o \in OffsetsOf(task) :
                            RemindersAt(id, task.start_time.v + o) = 1
                    /\ Len(EventsOf(id, "reminder")) = Cardinality(OffsetsOf(task))
                    /\ AutoDropFollowsRule(id)

(***************************************************************************)
(* C37: after any sequence of create_task, shift_task, cancel_task and     *)
(* adjust_priority, every task with a start_time has at most one reminder  *)
(* event per distinct offset of its current priority rule and no other     *)
(* reminder; the reminder of an offset is at start_time plus the offset    *)
(* and is there whenever that time is not more than a day before the       *)
(* present, and no reminder was more than a day in the past when it was    *)
(* stored; and the task has exactly one auto_drop event, at created_at +   *)
(* auto_drop_after, if and only if its current rule defines                *)
(* auto_drop_after.                                                        *)
(***************************************************************************)
C37_RemindersFollowRule ==
    mgmt.some =>
        \A id \in 1..Len(mgmt.v.tasks) :
            LET task == mgmt.v.tasks[id]
                reminders == EventsOf(id, "reminder")
            IN  task.start_time.some =>
                    /\ \A o \in OffsetsOf(task) :
                            /\ RemindersAt(id, task.start_time.v + o) <= 1
                            /\ task.start_time.v + o >= mgmt.v.now - 24 * 60 =>
                                    RemindersAt(id, task.start_time.v + o) = 1
                    /\ \A k \in 1..Len(reminders) :
                            /\ \E o \in OffsetsOf(task) :
                                    /\ reminders[k].scheduled_for = task.start_time.v + o
                                    /\ reminders[k].offset_minutes = Some(o)
                            /\ reminders[k].scheduled_for >= reminders[k].created_at - 24 * 60
                            /\ reminders[k].priority = task.priority
                    /\ AutoDropFollowsRule(id)

C37_Witness ==
    /\ mgmt.some
    /\ mgmt.v.last.op = "adjust_priority"
    /\ mgmt.v.now = 90
    /\ Len(mgmt.v.tasks) = 1
    /\ mgmt.v.tasks[1].priority = "P1"
    /\ mgmt.v.tasks[1].created_at = 0
    /\ mgmt.v.tasks[1].start_time = Some(-1300)
    /\ mgmt.v.tasks[1].end_time = Some(600)
    /\ Len(EventsOf(1, "reminder")) = 2
    /\ RemindersAt(1, -1540) = 0
    /\ Len(EventsOf(1, "auto_drop")) = 1

(***************************************************************************)
(* C38: while the controller's pipeline is active, every execute request   *)
(* the controller sends to the toolrunner is a step the Executor           *)
(* dispatched from a valid Plan; a command whose Plan is invalid reaches   *)
(* the toolrunner by no other route.                                       *)
(***************************************************************************)
C38_OnlyPlannedCommandsReachToolrunner ==
    (op = "chat" /\ controller.planner_enabled) =>
        /\ requests = dispatched
        /\ requests # <<>> => (plan.some /\ is_valid(plan.v))
        /\ (plan.some /\ ~is_valid(plan.v)) => requests = <<>>


\* C39: when the remote service answers with a whitelisted command, resolve
\* returns that command unchanged with confidence None if the confidence of
\* the answer is absent or float() cannot parse it; the Legacy Router's
\* command is substituted only if the confidence is a number below
\* low_conf_threshold and use_legacy_when_low_conf is set; a number at or
\* above the threshold keeps the remote command
RemoteAnswer == response.data.fields

WhitelistedRemoteCommand ==
    /\ op = "resolve"
    /\ raised = ""
    /\ remote_calls = 1
    /\ response.kind = "json"
    /\ response.data.t = "dict"
    /\ RemoteAnswer.command.t = "str"
    /\ RemoteAnswer.command.s \in whitelist

NumericConfidence == RemoteAnswer.confidence.t \in {"num", "numstr", "bool"}

ConfidenceNumber ==
    IF RemoteAnswer.confidence.t = "bool"
    THEN (IF RemoteAnswer.confidence.b THEN 100 ELSE 0)
    ELSE RemoteAnswer.confidence.n

KeptRemoteCommand(confidence) ==
    /\ is_command(intent)
    /\ intent.name.v = RemoteAnswer.command.s
    /\ intent.args = RemoteAnswer.args.fields
    /\ intent.meta.source = Some("remote")
    /\ intent.meta.fallback_used = Truthy(RemoteAnswer.fallback_used)
    /\ intent.meta.confidence = confidence
    /\ legacy_calls = 0 \/ (legacy_calls = 1 /\ ~is_command(legacy_route(text)))

=========================================================================
